---- MODULE Spec2Model ----
(***************************************************************************)
(* A model of the tabiew reducer (src/handler/action.rs), its command      *)
(* grammar (src/handler/command.rs), the pane (src/tui/pane.rs) and the    *)
(* name generator (src/misc/type_ext.rs).                                  *)
(*                                                                         *)
(* Strings are sequences of one-character strings, so that formatting,     *)
(* splitting and pattern matching are computed character by character.     *)
(* A data frame is an opaque external value; it is modelled by the         *)
(* sequence of the identifiers of its rows (its height is its length).     *)
(***************************************************************************)
EXTENDS Integers, Sequences, FiniteSets, TLC

\* ------------------------------------------------------------------ bounds
MaxRows == 2
MaxTabs == 3
MaxTables == 3
MaxImport == 2
MaxIdx == 3
MaxPattern == 2
MaxHistory == 2
MaxInput == 2
MaxOpts == 4
MaxCatalog == 4

\* ------------------------------------------------------- program constants
HelpHeight == 22

VARIABLES
  tabs, selected_tab, content, schema_selected, palette, history, error,
  running, catalog, theme, theme_selector, pending, panicked, last,
  cmd, parsed, reg, subseq, fit

vars == <<tabs, selected_tab, content, schema_selected, palette, history, error,
          running, catalog, theme, theme_selector, pending, panicked, last,
          cmd, parsed, reg, subseq, fit>>

paletteVars == <<palette, history>>
themeVars == <<theme, theme_selector>>
schemaVars == <<catalog, schema_selected>>
auxVars == <<cmd, parsed, reg, subseq, fit>>

\* ----------------------------------------------------------------- helpers
Min(a, b) == IF a <= b THEN a ELSE b

saturating_sub(a, b) == IF a >= b THEN a - b ELSE 0

Range(s) == {s[i] : i \in 1..Len(s)}

RECURSIVE usize_to_string(_)
usize_to_string(n) ==
  LET d == <<"0", "1", "2", "3", "4", "5", "6", "7", "8", "9">>
  IN  IF n < 10 THEN <<d[n + 1]>> ELSE usize_to_string(n \div 10) \o <<d[(n % 10) + 1]>>

RECURSIVE SortedSeq(_)
SortedSeq(S) ==
  IF S = {} THEN <<>>
  ELSE LET m == CHOOSE x \in S : \A y \in S : x <= y
       IN  <<m>> \o SortedSeq(S \ {m})

\* ------------------------------------------------------------------ frames
Rows == 1..MaxRows
Frames == {SortedSeq(S) : S \in SUBSET Rows}
FullFrame == SortedSeq(Rows)
QueryFrames == {SubSeq(FullFrame, 1, k) : k \in 0..MaxRows}
height(df) == Len(df)

\* ------------------------------------------------------------------ actions
Act(type) ==
  [type |-> type, s |-> <<>>, n |-> 0, df |-> <<>>, sep |-> "", quote |-> "",
   hdr |-> TRUE, flex |-> FALSE, widths |-> <<>>, fmt |-> "", args |-> <<>>]

ActN(type, n) == [Act(type) EXCEPT !.n = n]
ActS(type, s) == [Act(type) EXCEPT !.s = s]
None == Act("-")

\* ------------------------------------------------------------------- panes
\* Modal: m is the variant; a SearchBar holds its kind, its input (text and
\* cursor), the frame to roll back to and the matcher's latest-result slot
\* (<<>> is None, <<df>> is Some(df)).  opened_on and published are history
\* fields: the frame displayed when the bar was opened, and the matcher's
\* last publication.
NoModal ==
  [m |-> "None", kind |-> "", text |-> <<>>, cursor |-> 0, rollback |-> <<>>,
   slot |-> <<>>, opened_on |-> <<>>, published |-> <<>>]

SheetModal == [NoModal EXCEPT !.m = "Sheet"]

DataFrameInfoModal == [NoModal EXCEPT !.m = "DataFrameInfo"]
ScatterPlotModal == [NoModal EXCEPT !.m = "ScatterPlot"]
HistogramPlotModal == [NoModal EXCEPT !.m = "HistogramPlot"]
InlineQueryModal == [NoModal EXCEPT !.m = "InlineQuery"]
HelpModal == [NoModal EXCEPT !.m = "Help"]
SearchBarState_new(kind, df) ==
  [NoModal EXCEPT !.m = "SearchBar", !.kind = kind, !.rollback = df]
Help_kind == [t |-> "Help", s |-> <<>>]
Name_kind(name) == [t |-> "Name", s |-> name]
Query_kind(query) == [t |-> "Query", s |-> query]

PaneState_new(data_frame, table_type) ==
  [kind |-> table_type, frame |-> data_frame, row |-> 0, modal |-> NoModal]

\* -------------------------------------------------------------- tabs state
tabs_len == Len(tabs)
tabs_has_selected == selected_tab < Len(tabs)
tabs_selected == tabs[selected_tab + 1]
tabs_add(ts, tab) == Append(ts, tab)

tabs_remove(ts, idx) ==
  IF idx < Len(ts)
    THEN [i \in 1..(Len(ts) - 1) |-> IF i <= idx THEN ts[i] ELSE ts[i + 1]]
    ELSE ts

\* --------------------------------------------------------------- strings
SELECT_ALL_FROM == <<"S", "E", "L", "E", "C", "T", " ", "*", " ", "F", "R", "O", "M", " ">>
QUOTE1 == <<"'">>
select_all_from(name) == SELECT_ALL_FROM \o QUOTE1 \o name \o QUOTE1
QUERY_CURRENT == SELECT_ALL_FROM \o <<"_">>

\* ------------------------------------------------------------------ catalog
schema_names(cat) == [i \in 1..Len(cat) |-> cat[i].name]
schema_has(cat, name) == \E i \in 1..Len(cat) : cat[i].name = name
schema_get(cat, name) == cat[CHOOSE i \in 1..Len(cat) : cat[i].name = name]
User_source == [kind |-> "User", path |-> <<>>]
File_source(path) == [kind |-> "File", path |-> path]

SnakeCaseNameGen_next_from_one(base, stage) ==
  IF stage = 1 THEN base ELSE base \o <<"_">> \o usize_to_string(stage - 1)

SnakeCaseNameGen_next(base, stage) ==
  IF stage = 1 THEN base ELSE base \o <<"_">> \o usize_to_string(stage)

RECURSIVE first_free(_, _, _)
first_free(cat, base, stage) ==
  LET name == SnakeCaseNameGen_next(base, stage + 1)
  IN  IF schema_has(cat, name) THEN first_free(cat, base, stage + 1) ELSE name

register(cat, base, df, source) ==
  LET name == first_free(cat, base, 0)
  IN  [catalog |-> Append(cat, [name |-> name, frame |-> df, source |-> source]),
       name |-> name]

unregister(cat, name) == SelectSeq(cat, LAMBDA e : e.name # name)

\* --------------------------------------------------------------- sql engine
\* The engine is an external collaborator: a query that is not a plain
\* table scan may fail or produce a frame of any height.
PLACEHOLDER == <<" ", "F", "R", "O", "M", " ", "_">>

has_infix(s, t) ==
  \E i \in 0..(Len(s) - Len(t)) : SubSeq(s, i + 1, i + Len(t)) = t

scanned_table(cat, query) ==
  {i \in 1..Len(cat) : query = select_all_from(cat[i].name)}

sql_failed == [ok |-> FALSE, df |-> <<>>]

\* a scan of one quoted table name, registered or not
is_table_scan(query) ==
  /\ Len(query) >= Len(SELECT_ALL_FROM) + 2
  /\ SubSeq(query, 1, Len(SELECT_ALL_FROM)) = SELECT_ALL_FROM
  /\ \A i \in (Len(SELECT_ALL_FROM) + 1)..Len(query) :
       query[i] = "'" <=> i \in {Len(SELECT_ALL_FROM) + 1, Len(query)}

sql_execute(cat, query, current) ==
  IF scanned_table(cat, query) # {}
    THEN {[ok |-> TRUE, df |-> cat[i].frame] : i \in scanned_table(cat, query)}
  ELSE IF is_table_scan(query)
    THEN {sql_failed}
  ELSE IF has_infix(query, PLACEHOLDER) /\ current = <<>>
    THEN {sql_failed}
  ELSE {sql_failed} \cup {[ok |-> TRUE, df |-> f] : f \in QueryFrames}

\* the selected tab's frame as Option<DataFrame>: <<>> is None, <<df>> is Some(df)
current_frame == IF tabs_has_selected THEN <<tabs_selected.frame>> ELSE <<>>

\* --------------------------------------------------------------- event loop
\* One step of the loop runs execute on one action; Ok(follow_up) leaves the
\* follow-up to be executed next, Err(e) stores the message in state.error,
\* and a panic aborts the process.
\* A new action is taken from the keymap once the previous chain has ended;
\* while an error is displayed the only mapped actions are the dismissals.
Fresh == pending = None /\ running /\ ~panicked /\ error = ""
Dismissable == pending = None /\ running /\ ~panicked /\ error # ""

Ok(a, follow_up) ==
  /\ pending' = follow_up
  /\ last' = [act |-> a, res |-> IF follow_up = None THEN "none" ELSE "some"]
  /\ UNCHANGED <<panicked, auxVars>>

Err_keeps_pending(a, msg) ==
  /\ pending' = pending
  /\ error' = msg
  /\ last' = [act |-> a, res |-> "err"]
  /\ UNCHANGED <<panicked, auxVars>>
Err(a, msg) ==
  /\ pending' = None
  /\ error' = msg
  /\ last' = [act |-> a, res |-> "err"]
  /\ UNCHANGED <<panicked, auxVars>>

Panic(a) ==
  /\ pending' = None
  /\ panicked' = TRUE
  /\ last' = [act |-> a, res |-> "panic"]
  /\ UNCHANGED <<error, auxVars>>

\* ----------------------------------------------------------------- reducer
DismissError(a) ==
  /\ error' = ""
  /\ Ok(a, None)
  /\ UNCHANGED <<tabs, selected_tab, content, running, paletteVars, themeVars,
                 schemaVars>>

NoAction_dismisses(a) == DismissError(a)
NoAction(a) ==
  /\ Ok(a, None)
  /\ UNCHANGED <<tabs, selected_tab, content, error, running, paletteVars,
                 themeVars, schemaVars>>

Quit(a) ==
  /\ running' = FALSE
  /\ Ok(a, None)
  /\ UNCHANGED <<tabs, selected_tab, content, error, paletteVars, themeVars,
                 schemaVars>>

SwitchToSchema(a) ==
  /\ content' = "Schema"
  /\ Ok(a, None)
  /\ UNCHANGED <<tabs, selected_tab, error, running, paletteVars, themeVars,
                 schemaVars>>

SwitchToTabulars(a) ==
  /\ content' = "Tabular"
  /\ Ok(a, None)
  /\ UNCHANGED <<tabs, selected_tab, error, running, paletteVars, themeVars,
                 schemaVars>>

TabSelect_unclamped(a) ==
  /\ selected_tab' = a.n
  /\ content' = "Tabular"
  /\ Ok(a, None)
  /\ UNCHANGED <<tabs, error, running, paletteVars, themeVars, schemaVars>>

TabSelect_keeps_content(a) ==
  /\ selected_tab' = Min(a.n, saturating_sub(tabs_len, 1))
  /\ Ok(a, None)
  /\ UNCHANGED <<tabs, content, error, running, paletteVars, themeVars, schemaVars>>
TabSelect(a) ==
  /\ selected_tab' = Min(a.n, saturating_sub(tabs_len, 1))
  /\ content' = "Tabular"
  /\ Ok(a, None)
  /\ UNCHANGED <<tabs, error, running, paletteVars, themeVars, schemaVars>>

TabRemove_keeps_selection(a) ==
  /\ tabs' = tabs_remove(tabs, a.n)
  /\ Ok(a, ActN("TabSelect", selected_tab))
  /\ UNCHANGED <<selected_tab, content, error, running, paletteVars, themeVars,
                 schemaVars>>
TabRemove(a) ==
  /\ tabs' = tabs_remove(tabs, a.n)
  /\ Ok(a, ActN("TabSelect", a.n))
  /\ UNCHANGED <<selected_tab, content, error, running, paletteVars, themeVars,
                 schemaVars>>

TabRename(a) ==
  /\ Panic(a)
  /\ UNCHANGED <<tabs, selected_tab, content, running, paletteVars, themeVars,
                 schemaVars>>

TabPrev(a) ==
  /\ Ok(a, ActN("TabSelect", saturating_sub(selected_tab, 1)))
  /\ UNCHANGED <<tabs, selected_tab, content, error, running, paletteVars,
                 themeVars, schemaVars>>

TabNext(a) ==
  /\ Ok(a, ActN("TabSelect", selected_tab + 1))
  /\ UNCHANGED <<tabs, selected_tab, content, error, running, paletteVars,
                 themeVars, schemaVars>>

TabRemoveOrQuit_quits_when_empty(a) ==
  /\ IF tabs_len = 0
       THEN /\ running' = FALSE
            /\ Ok(a, None)
            /\ UNCHANGED tabs
       ELSE /\ tabs' = tabs_remove(tabs, selected_tab)
            /\ Ok(a, ActN("TabSelect", selected_tab))
            /\ UNCHANGED running
  /\ UNCHANGED <<selected_tab, content, error, paletteVars, themeVars, schemaVars>>

TabRemoveOrQuit(a) ==
  /\ IF tabs_len = 1
       THEN /\ running' = FALSE
            /\ Ok(a, None)
            /\ UNCHANGED tabs
       ELSE /\ tabs' = tabs_remove(tabs, selected_tab)
            /\ Ok(a, ActN("TabSelect", selected_tab))
            /\ UNCHANGED running
  /\ UNCHANGED <<selected_tab, content, error, paletteVars, themeVars, schemaVars>>

TabNewQuery_always_query(a) ==
  /\ tabs_len < MaxTabs
  /\ \E r \in sql_execute(catalog, a.s, current_frame) :
       IF r.ok
         THEN /\ tabs' = tabs_add(tabs, PaneState_new(r.df, Query_kind(a.s)))
              /\ Ok(a, ActN("TabSelect", saturating_sub(Len(tabs'), 1)))
              /\ UNCHANGED error
         ELSE /\ Err(a, "sql")
              /\ UNCHANGED tabs
  /\ UNCHANGED <<selected_tab, content, running, paletteVars, themeVars, schemaVars>>

TabNewQuery(a) ==
  /\ tabs_len < MaxTabs
  /\ LET named == schema_has(catalog, a.s)
         results == IF named
                      THEN sql_execute(catalog, select_all_from(a.s), <<>>)
                      ELSE sql_execute(catalog, a.s, current_frame)
         kind == IF named THEN Name_kind(a.s) ELSE Query_kind(a.s)
     IN  \E r \in results :
           IF r.ok
             THEN /\ tabs' = tabs_add(tabs, PaneState_new(r.df, kind))
                  /\ Ok(a, ActN("TabSelect", saturating_sub(Len(tabs'), 1)))
                  /\ UNCHANGED error
             ELSE /\ Err(a, "sql")
                  /\ UNCHANGED tabs
  /\ UNCHANGED <<selected_tab, content, running, paletteVars, themeVars, schemaVars>>

HelpFrame == [i \in 1..HelpHeight |-> 0 - i]

help_tab_idx ==
  LET S == {i \in 1..Len(tabs) : tabs[i].kind = Help_kind}
  IN  IF S = {} THEN <<>> ELSE <<(CHOOSE i \in S : \A j \in S : i <= j) - 1>>

Help_always_adds(a) ==
  /\ tabs_len < MaxTabs
  /\ tabs' = tabs_add(tabs, PaneState_new(HelpFrame, Help_kind))
  /\ Ok(a, ActN("TabSelect", saturating_sub(Len(tabs'), 1)))
  /\ UNCHANGED <<selected_tab, content, error, running, paletteVars, themeVars,
                 schemaVars>>

Help(a) ==
  /\ IF help_tab_idx # <<>>
       THEN /\ Ok(a, ActN("TabSelect", help_tab_idx[1]))
            /\ UNCHANGED tabs
       ELSE /\ tabs_len < MaxTabs
            /\ tabs' = tabs_add(tabs, PaneState_new(HelpFrame, Help_kind))
            /\ Ok(a, ActN("TabSelect", saturating_sub(Len(tabs'), 1)))
  /\ UNCHANGED <<selected_tab, content, error, running, paletteVars, themeVars,
                 schemaVars>>

\* ----------------------------------------------------------------- imports
\* A reader is an external collaborator: decoding a source fails or yields
\* a list of (suggested name, frame) pairs.
NAME_T == <<"t">>
NAME_U == <<"u">>
PATH_P == <<"/", "p">>
BaseNames == {NAME_T}

decode_results ==
  {[ok |-> FALSE, frames |-> <<>>]} \cup
  {[ok |-> TRUE, frames |-> fs] :
     fs \in UNION {[1..k -> [name : BaseNames, df : {FullFrame}]] : k \in 0..MaxImport}}

RECURSIVE import_frames(_, _, _, _)
import_frames(cat, ts, frames, source) ==
  IF frames = <<>> THEN [catalog |-> cat, tabs |-> ts]
  ELSE LET r == register(cat, Head(frames).name, Head(frames).df, source)
           tab == PaneState_new(Head(frames).df, Name_kind(r.name))
       IN  import_frames(r.catalog, tabs_add(ts, tab), Tail(frames), source)

import(a, selects_last) ==
  /\ \E r \in decode_results :
       /\ Len(tabs) + Len(r.frames) <= MaxTabs
       /\ Len(catalog) + Len(r.frames) <= MaxTables
       /\ IF r.ok
            THEN LET done == import_frames(catalog, tabs, r.frames, File_source(a.s))
                 IN  /\ tabs' = done.tabs
                     /\ catalog' = done.catalog
                     /\ Ok(a, IF selects_last
                                 THEN ActN("TabSelect", saturating_sub(Len(tabs'), 1))
                                 ELSE None)
                     /\ UNCHANGED error
            ELSE /\ Err(a, "decode")
                 /\ UNCHANGED <<tabs, catalog>>
  /\ UNCHANGED <<selected_tab, content, running, schema_selected, paletteVars,
                 themeVars>>

ImportDsv(a) == import(a, FALSE)
ImportParquet(a) == import(a, TRUE)
ImportJson(a) == import(a, TRUE)
ImportArrow(a) == import(a, TRUE)
ImportSqlite(a) == import(a, TRUE)
ImportFwf(a) == import(a, TRUE)

RegisterDataFrame_disambiguates(a) ==
  /\ Len(catalog) < MaxTables
  /\ catalog' = IF tabs_has_selected
                  THEN register(catalog, a.s, tabs_selected.frame, User_source).catalog
                  ELSE catalog
  /\ Ok(a, None)
  /\ UNCHANGED <<error, tabs, selected_tab, content, running, schema_selected,
                 paletteVars, themeVars>>

RegisterDataFrame(a) ==
  /\ IF schema_has(catalog, a.s)
       THEN /\ Err(a, "exists")
            /\ UNCHANGED catalog
       ELSE /\ Len(catalog) < MaxTables
            /\ catalog' = IF tabs_has_selected
                            THEN register(catalog, a.s, tabs_selected.frame,
                                          User_source).catalog
                            ELSE catalog
            /\ Ok(a, None)
            /\ UNCHANGED error
  /\ UNCHANGED <<tabs, selected_tab, content, running, schema_selected,
                 paletteVars, themeVars>>

\* ------------------------------------------------------------------ schema
\* Option<String>: the name of the selected row of the schema's names table
selected_table_name ==
  IF schema_selected # <<>> /\ schema_selected[1] < Len(catalog)
    THEN <<catalog[schema_selected[1] + 1].name>>
    ELSE <<>>

name_tab_idx(name) ==
  LET S == {i \in 1..Len(tabs) : tabs[i].kind = Name_kind(name)}
  IN  IF S = {} THEN <<>> ELSE <<(CHOOSE i \in S : \A j \in S : i <= j) - 1>>

SchemaOpenTable_always_new(a) ==
  /\ IF selected_table_name = <<>>
       THEN Err(a, "No table is selected")
       ELSE /\ Ok(a, ActS("TabNewQuery", selected_table_name[1]))
            /\ UNCHANGED error
  /\ UNCHANGED <<tabs, selected_tab, content, running, paletteVars, themeVars,
                 schemaVars>>

SchemaOpenTable(a) ==
  /\ IF selected_table_name = <<>>
       THEN Err(a, "No table is selected")
       ELSE /\ IF name_tab_idx(selected_table_name[1]) # <<>>
                 THEN Ok(a, ActN("TabSelect", name_tab_idx(selected_table_name[1])[1]))
                 ELSE Ok(a, ActS("TabNewQuery", selected_table_name[1]))
            /\ UNCHANGED error
  /\ UNCHANGED <<tabs, selected_tab, content, running, paletteVars, themeVars,
                 schemaVars>>

SchemaUnloadTable_closes_tab(a) ==
  /\ IF selected_table_name = <<>>
       THEN /\ Err(a, "No table is selected")
            /\ UNCHANGED <<catalog, tabs>>
       ELSE /\ catalog' = unregister(catalog, selected_table_name[1])
            /\ tabs' = SelectSeq(tabs, LAMBDA t : t.kind # Name_kind(selected_table_name[1]))
            /\ Ok(a, None)
            /\ UNCHANGED error
  /\ UNCHANGED <<selected_tab, content, running, schema_selected,
                 paletteVars, themeVars>>

SchemaUnloadTable(a) ==
  /\ IF selected_table_name = <<>>
       THEN /\ Err(a, "No table is selected")
            /\ UNCHANGED catalog
       ELSE /\ catalog' = unregister(catalog, selected_table_name[1])
            /\ Ok(a, None)
            /\ UNCHANGED error
  /\ UNCHANGED <<tabs, selected_tab, content, running, schema_selected,
                 paletteVars, themeVars>>

schema_select(a, sel) ==
  /\ schema_selected' = IF content = "Schema" THEN sel ELSE schema_selected
  /\ Ok(a, None)
  /\ UNCHANGED <<tabs, selected_tab, content, error, running, catalog,
                 paletteVars, themeVars>>

SchemaNamesSelectPrev(a) ==
  schema_select(a, IF schema_selected = <<>> THEN <<saturating_sub(Len(catalog), 1)>>
                   ELSE <<saturating_sub(schema_selected[1], 1)>>)

SchemaNamesSelectNext(a) ==
  schema_select(a, IF schema_selected = <<>> THEN <<0>>
                   ELSE <<Min(schema_selected[1] + 1, saturating_sub(Len(catalog), 1))>>)

SchemaNamesSelectFirst(a) == schema_select(a, <<0>>)
SchemaNamesSelectLast(a) == schema_select(a, <<saturating_sub(Len(catalog), 1)>>)

\* ------------------------------------------------------------------ table
\* DataFrameTableState: the displayed frame and the selected row
set_data_frame_keeps_row(tab, df) == [tab EXCEPT !.frame = df]
set_data_frame(tab, df) ==
  [tab EXCEPT !.frame = df, !.row = Min(@, saturating_sub(height(df), 1))]

select(tab, line) ==
  [tab EXCEPT !.row = Min(line, saturating_sub(height(tab.frame), 1))]

\* ------------------------------------------------------------------- pane
show_sheet(tab) == [tab EXCEPT !.modal = SheetModal]
show_fuzzy_search_keeps_nothing(tab) ==
  [tab EXCEPT !.modal = SearchBarState_new("fuzzy", <<>>)]

show_fuzzy_search(tab) == [tab EXCEPT !.modal = SearchBarState_new("fuzzy", tab.frame)]
show_exact_search(tab) == [tab EXCEPT !.modal = SearchBarState_new("exact", tab.frame)]
show_inline_query(tab) == [tab EXCEPT !.modal = InlineQueryModal]
show_help(tab) == [tab EXCEPT !.modal = HelpModal]
modal_take(tab) == [tab EXCEPT !.modal = NoModal]

\* Search::latest(): the slot's content; whether reading empties the slot is
\* the channel's business, so both outcomes are possible.
after_latest(modal) == {modal, [modal EXCEPT !.slot = <<>>]}

tick_any_modal(tab) ==
  IF tab.modal.slot # <<>>
    THEN {[set_data_frame(tab, tab.modal.slot[1]) EXCEPT !.modal = m] :
            m \in after_latest(tab.modal)}
    ELSE {tab}

tick_takes_modal(tab) ==
  IF tab.modal.m = "SearchBar" /\ tab.modal.slot # <<>>
    THEN {set_data_frame(modal_take(tab), tab.modal.slot[1])}
    ELSE {tab}
tick(tab) ==
  IF tab.modal.m = "SearchBar" /\ tab.modal.slot # <<>>
    THEN {[set_data_frame(tab, tab.modal.slot[1]) EXCEPT !.modal = m] :
            m \in after_latest(tab.modal)}
    ELSE {tab}

\* the matcher filters the rows of the frame it was created with
matches(df) == {SelectSeq(df, LAMBDA r : r \in S) : S \in SUBSET Range(df)}

\* --------------------------------------------------------- reducer (table)
with_selected(a, new_tab) ==
  /\ tabs' = IF tabs_has_selected
               THEN [tabs EXCEPT ![selected_tab + 1] = new_tab]
               ELSE tabs
  /\ Ok(a, None)
  /\ UNCHANGED <<selected_tab, content, error, running, paletteVars, themeVars,
                 schemaVars>>

TableDismissModal(a) == with_selected(a, modal_take(tabs_selected))
SheetShow(a) == with_selected(a, show_sheet(tabs_selected))

DataFrameInfoShow(a) ==
  with_selected(a, [tabs_selected EXCEPT !.modal = DataFrameInfoModal])

\* the plot data and the plot state may fail to build
ScatterPlot(a) ==
  \/ with_selected(a, [tabs_selected EXCEPT !.modal = ScatterPlotModal])
  \/ /\ tabs_has_selected
     /\ Err(a, "plot")
     /\ UNCHANGED <<tabs, selected_tab, content, running, paletteVars, themeVars,
                    schemaVars>>

HistogramPlot(a) ==
  \/ with_selected(a, [tabs_selected EXCEPT !.modal = HistogramPlotModal])
  \/ /\ tabs_has_selected
     /\ Err(a, "plot")
     /\ UNCHANGED <<tabs, selected_tab, content, running, paletteVars, themeVars,
                    schemaVars>>

InlineQueryShow(a) == with_selected(a, show_inline_query(tabs_selected))

\* Pane::render: the arm of the DataFrameInfo modal is todo!() for a pane of
\* kind Help
render_todo(pane) == pane.modal.m = "DataFrameInfo" /\ pane.kind.t = "Help"
SearchFuzzyShow(a) ==
  with_selected(a, [show_fuzzy_search(tabs_selected) EXCEPT
                      !.modal.opened_on = <<tabs_selected.frame>>])

SearchExactShow(a) ==
  with_selected(a, [show_exact_search(tabs_selected) EXCEPT
                      !.modal.opened_on = <<tabs_selected.frame>>])

GotoLine(a) ==
  IF content = "Schema"
    THEN /\ schema_selected' = <<a.n>>
         /\ Ok(a, None)
         /\ UNCHANGED <<tabs, selected_tab, content, error, running, catalog,
                        paletteVars, themeVars>>
    ELSE with_selected(a, select(tabs_selected, a.n))

TableGotoFirst(a) == with_selected(a, select(tabs_selected, 0))

TableGotoLast(a) ==
  with_selected(a, select(tabs_selected, saturating_sub(height(tabs_selected.frame), 1)))

\* rand's random_range panics on an empty range
TableGotoRandom(a) ==
  IF tabs_has_selected /\ height(tabs_selected.frame) = 0
    THEN /\ Panic(a)
         /\ UNCHANGED <<tabs, selected_tab, content, running, paletteVars,
                        themeVars, schemaVars>>
    ELSE \E random_row \in 0..(IF tabs_has_selected
                                 THEN height(tabs_selected.frame) - 1 ELSE 0) :
           with_selected(a, select(tabs_selected, random_row))

\* DataFrameTableState::select_up and select_down move the selection by a
\* number of lines and keep it on a row of the frame
select_up(tab, len) == select(tab, saturating_sub(tab.row, len))

select_down_unclamped(tab, len) == [tab EXCEPT !.row = @ + len]

select_down(tab, len) == select(tab, tab.row + len)

\* the number of rows the renderer drew last (a u16), whatever it was
MaxRendered == 5
rendered_rows == 0..MaxRendered

TableGoUp(a) == with_selected(a, select_up(tabs_selected, a.n))

TableGoUpHalfPage(a) ==
  \E rows \in rendered_rows : with_selected(a, select_up(tabs_selected, rows \div 2))

TableGoUpFullPage(a) ==
  \E rows \in rendered_rows : with_selected(a, select_up(tabs_selected, rows))

TableGoDown(a) == with_selected(a, select_down(tabs_selected, a.n))

TableGoDownHalfPage(a) ==
  \E rows \in rendered_rows : with_selected(a, select_down(tabs_selected, rows \div 2))

TableGoDownFullPage(a) ==
  \E rows \in rendered_rows : with_selected(a, select_down(tabs_selected, rows))
TableQuery(a) ==
  /\ \E r \in sql_execute(catalog, a.s, current_frame) :
       IF r.ok
         THEN /\ Ok(a, [Act("TableSetDataFrame") EXCEPT !.df = r.df])
              /\ UNCHANGED error
         ELSE Err(a, "sql")
  /\ UNCHANGED <<tabs, selected_tab, content, running, paletteVars, themeVars,
                 schemaVars>>

TableSetDataFrame_all_tabs(a) ==
  /\ tabs' = [i \in 1..Len(tabs) |-> set_data_frame(tabs[i], a.df)]
  /\ Ok(a, None)
  /\ UNCHANGED <<selected_tab, content, error, running, paletteVars, themeVars,
                 schemaVars>>
TableSetDataFrame_requeries(a) ==
  /\ tabs' = IF tabs_has_selected
               THEN [tabs EXCEPT ![selected_tab + 1] = set_data_frame(tabs_selected, a.df)]
               ELSE tabs
  /\ Ok(a, ActS("TableQuery", QUERY_CURRENT))
  /\ UNCHANGED <<selected_tab, content, error, running, paletteVars, themeVars,
                 schemaVars>>
TableSetDataFrame(a) == with_selected(a, set_data_frame(tabs_selected, a.df))

\* -------------------------------------------------------- reducer (search)
\* the input field of the search bar: text and cursor
input_insert(m, c) ==
  [m EXCEPT !.text = SubSeq(@, 1, m.cursor) \o <<c>> \o SubSeq(@, m.cursor + 1, Len(@)),
            !.cursor = @ + 1]

input_delete_prev(m) ==
  IF m.cursor = 0 THEN m
  ELSE [m EXCEPT !.text = SubSeq(@, 1, m.cursor - 1) \o SubSeq(@, m.cursor + 1, Len(@)),
                 !.cursor = @ - 1]

input_delete_next(m) ==
  [m EXCEPT !.text = SubSeq(@, 1, m.cursor) \o SubSeq(@, m.cursor + 2, Len(@))]

input_goto(m, pos) == [m EXCEPT !.cursor = pos]

\* an edit of the search bar of the selected tab; nothing without a search bar
search_bar(a, edited) ==
  with_selected(a, IF tabs_selected.modal.m = "SearchBar"
                     THEN [tabs_selected EXCEPT !.modal = edited]
                     ELSE tabs_selected)

selected_modal == IF tabs_has_selected THEN tabs_selected.modal ELSE NoModal

SearchGotoNext(a) ==
  search_bar(a, input_goto(selected_modal,
                           Min(selected_modal.cursor + 1, Len(selected_modal.text))))

SearchGotoPrev(a) ==
  search_bar(a, input_goto(selected_modal, saturating_sub(selected_modal.cursor, 1)))

SearchGotoStart(a) == search_bar(a, input_goto(selected_modal, 0))
SearchGotoEnd(a) == search_bar(a, input_goto(selected_modal, Len(selected_modal.text)))
SearchDeleteNext(a) == search_bar(a, input_delete_next(selected_modal))
SearchDeletePrev(a) == search_bar(a, input_delete_prev(selected_modal))

SearchGotoNextWord(a) ==
  \E pos \in selected_modal.cursor..Len(selected_modal.text) :
    search_bar(a, input_goto(selected_modal, pos))

SearchGotoPrevWord(a) ==
  \E pos \in 0..selected_modal.cursor :
    search_bar(a, input_goto(selected_modal, pos))

SearchDeleteNextWord(a) ==
  \E pos \in selected_modal.cursor..Len(selected_modal.text) :
    search_bar(a, [selected_modal EXCEPT !.text =
                     SubSeq(@, 1, selected_modal.cursor) \o SubSeq(@, pos + 1, Len(@))])

SearchDeletePrevWord(a) ==
  \E pos \in 0..selected_modal.cursor :
    search_bar(a, [selected_modal EXCEPT !.text =
                     SubSeq(@, 1, pos) \o SubSeq(@, selected_modal.cursor + 1, Len(@)),
                                         !.cursor = pos])

SearchInsert(a) ==
  /\ Len(selected_modal.text) < MaxPattern
  /\ search_bar(a, input_insert(selected_modal, a.sep))

SearchCommit_drops_result(a) == with_selected(a, modal_take(tabs_selected))

SearchCommit(a) ==
  IF tabs_has_selected /\ tabs_selected.modal.m = "SearchBar"
                       /\ tabs_selected.modal.slot # <<>>
    THEN with_selected(a, set_data_frame(modal_take(tabs_selected),
                                         tabs_selected.modal.slot[1]))
    ELSE with_selected(a, modal_take(tabs_selected))

SearchRollback(a) ==
  IF tabs_has_selected /\ tabs_selected.modal.m = "SearchBar"
    THEN with_selected(a, set_data_frame(modal_take(tabs_selected),
                                         tabs_selected.modal.rollback))
    ELSE with_selected(a, modal_take(tabs_selected))

\* ------------------------------------------------- tick and search worker
Tick ==
  /\ pending = None /\ running /\ ~panicked
  /\ tabs_has_selected
  /\ \E t \in tick(tabs_selected) : tabs' = [tabs EXCEPT ![selected_tab + 1] = t]
  /\ last' = [act |-> Act("tick"), res |-> "none"]
  /\ UNCHANGED <<selected_tab, content, error, running, paletteVars, themeVars,
                 schemaVars, pending, panicked, auxVars>>

Publish ==
  /\ ~panicked /\ running
  /\ \E i \in 1..Len(tabs) :
       /\ tabs[i].modal.m = "SearchBar"
       /\ \E df \in matches(tabs[i].modal.rollback) :
            tabs' = [tabs EXCEPT ![i].modal.slot = <<df>>,
                                 ![i].modal.published = <<df>>]
  /\ last' = [act |-> Act("publish"), res |-> "none"]
  /\ UNCHANGED <<selected_tab, content, error, running, paletteVars, themeVars,
                 schemaVars, pending, panicked, auxVars>>

\* The worker of a search bar that has been replaced publishes once more: its
\* slot went with the bar, so the publication reaches no bar.  The slot is
\* kept with the pane's modal for the record.
PublishLate ==
  /\ ~panicked /\ running
  /\ \E i \in 1..Len(tabs) :
       /\ tabs[i].modal.m # "SearchBar"
       /\ \E df \in matches(FullFrame) :
            tabs' = [tabs EXCEPT ![i].modal.slot = <<df>>]
  /\ last' = [act |-> Act("publish"), res |-> "none"]
  /\ UNCHANGED <<selected_tab, content, error, running, paletteVars, themeVars,
                 schemaVars, pending, panicked, auxVars>>

\* PaneState::show_help on the selected pane
ShowHelp ==
  /\ pending = None /\ running /\ ~panicked
  /\ tabs_has_selected
  /\ tabs' = [tabs EXCEPT ![selected_tab + 1] = show_help(tabs_selected)]
  /\ last' = [act |-> Act("show_help"), res |-> "none"]
  /\ UNCHANGED <<selected_tab, content, error, running, paletteVars, themeVars,
                 schemaVars, pending, panicked, auxVars>>

\* ------------------------------------------------------- command grammar
\* str helpers
least(S) == CHOOSE i \in S : \A j \in S : i <= j
greatest(S) == CHOOSE i \in S : \A j \in S : i >= j

\* HasSubsequence for str: walk self once, advancing over other each time
\* its current character is met; true when other has been used up
RECURSIVE has_subsequence_loop(_, _, _, _)
has_subsequence_loop(self, other, i, current) ==
  IF i > Len(self) \/ current > Len(other) THEN current > Len(other)
  ELSE IF self[i] = other[current]
    THEN has_subsequence_loop(self, other, i + 1, current + 1)
  ELSE has_subsequence_loop(self, other, i + 1, current)

has_subsequence_contiguous(self, other) ==
  \E k \in 0..Len(self) :
    k + Len(other) <= Len(self) /\ SubSeq(self, k + 1, k + Len(other)) = other

has_subsequence(self, other) == has_subsequence_loop(self, other, 1, 1)
split_once(s, c) ==
  LET S == {i \in 1..Len(s) : s[i] = c}
  IN  IF S = {} THEN <<>>
      ELSE <<SubSeq(s, 1, least(S) - 1), SubSeq(s, least(S) + 1, Len(s))>>

\* FitToWidth for str.  A character is one with a display width of 1 ("a"),
\* a wide one (U+4F60, width 2) or a combining one (U+0301, width 0), the
\* last two written by their code points; their UTF-8 lengths are 1, 3 and
\* 2 bytes.
CJK_NI == "U+4F60"
COMBINING_ACUTE == "U+0301"
char_width(c) == IF c = CJK_NI THEN 2 ELSE IF c = COMBINING_ACUTE THEN 0 ELSE 1
len_utf8(c) == IF c = CJK_NI THEN 3 ELSE IF c = COMBINING_ACUTE THEN 2 ELSE 1

RECURSIVE char_index(_, _)
char_index(self, k) == IF k = 1 THEN 0 ELSE char_index(self, k - 1) + len_utf8(self[k - 1])

\* scan: the running sum of the widths, the byte offset after each character
\* while the sum is within the width; last: the final offset, 0 without one
RECURSIVE fit_scan(_, _, _, _, _)
fit_scan(self, width, k, s, end) ==
  IF k > Len(self) THEN end
  ELSE IF s + char_width(self[k]) <= width
    THEN fit_scan(self, width, k + 1, s + char_width(self[k]),
                  char_index(self, k) + len_utf8(self[k]))
  ELSE end

\* &self[..end]: the characters that lie before the byte offset
byte_slice_to(self, end) ==
  SubSeq(self, 1, Cardinality({k \in 1..Len(self) : char_index(self, k) + len_utf8(self[k]) <= end}))

fit_to_width_chars(self, width) == SubSeq(self, 1, Min(Len(self), width))

fit_to_width(self, width) == byte_slice_to(self, fit_scan(self, width, 1, 0, 0))

\* str::split(' '): the pieces between the spaces, empty ones included
RECURSIVE split(_, _)
split(s, c) ==
  LET p == split_once(s, c)
  IN  IF p = <<>> THEN <<s>> ELSE <<p[1]>> \o split(p[2], c)

is_whitespace(c) == c \in {" ", "\t"}
is_digit(c) == c \in {"0", "1", "2", "3", "4", "5", "6", "7", "8", "9"}
digit_value(c) == CHOOSE d \in 0..9 : usize_to_string(d) = <<c>>

\* str::trim
RECURSIVE trim(_)
trim(s) ==
  IF s # <<>> /\ is_whitespace(s[1]) THEN trim(Tail(s))
  ELSE IF s # <<>> /\ is_whitespace(s[Len(s)]) THEN trim(SubSeq(s, 1, Len(s) - 1))
  ELSE s

\* the length of a string in bytes; the only non-ASCII character used is "é"
RECURSIVE byte_len(_)
byte_len(s) ==
  IF s = <<>> THEN 0 ELSE (IF s[1] = "é" THEN 2 ELSE 1) + byte_len(Tail(s))

is_ascii(s) == \A i \in 1..Len(s) : s[i] # "é"

\* str::parse::<usize>(): an optional "+" and at least one digit; <<>> is Err
RECURSIVE digits_value(_)
digits_value(s) ==
  IF s = <<>> THEN 0 ELSE 10 * digits_value(SubSeq(s, 1, Len(s) - 1)) + digit_value(s[Len(s)])

parse_usize(s) ==
  LET d == IF s # <<>> /\ s[1] = "+" THEN Tail(s) ELSE s
  IN  IF d # <<>> /\ \A i \in 1..Len(d) : is_digit(d[i])
        THEN <<digits_value(d)>>
        ELSE <<>>

\* AppResult<AppAction>
Parsed(act) == [st |-> "ok", act |-> act]
ParseError == [st |-> "err", act |-> None]
NotParsed == [st |-> "none", act |-> None]

\* --- the import sub-grammar: regular expressions searched in the query
\* the end of the longest run of whitespace that starts at position i
RECURSIVE skip_whitespace(_, _)
skip_whitespace(q, i) ==
  IF i <= Len(q) /\ is_whitespace(q[i]) THEN skip_whitespace(q, i + 1) ELSE i

occurs_at(q, kw, i) ==
  i + Len(kw) - 1 <= Len(q) /\ SubSeq(q, i, i + Len(kw) - 1) = kw

\* kw\s+(?<path>.*): the leftmost kw followed by whitespace; <<>> is no match
captures_no_args(kw, q) ==
  LET S == {i \in 1..Len(q) : /\ occurs_at(q, kw, i)
                               /\ i + Len(kw) <= Len(q)
                               /\ is_whitespace(q[i + Len(kw)])}
  IN  IF S = {} THEN <<>>
      ELSE LET p == skip_whitespace(q, least(S) + Len(kw))
           IN  <<[path |-> SubSeq(q, p, Len(q))]>>

\* the closing brackets that end the arguments opened at position open:
\* followed by whitespace, with at least min_args characters in between
closings(q, open, min_args) ==
  {k \in (open + 1 + min_args)..(Len(q) - 1) :
     q[k] = "]" /\ is_whitespace(q[k + 1])}

\* kw\s*\[(?<args>.+)\]\s+(?<path>.*) (min_args = 1), or with (?<args>.*)
\* (min_args = 0): the leftmost match, its args as long as possible
captures_with_args(kw, q, min_args) ==
  LET opens(i) == skip_whitespace(q, i + Len(kw))
      S == {i \in 1..Len(q) : /\ occurs_at(q, kw, i)
                               /\ opens(i) <= Len(q)
                               /\ q[opens(i)] = "["
                               /\ closings(q, opens(i), min_args) # {}}
  IN  IF S = {} THEN <<>>
      ELSE LET open == opens(least(S))
               close == greatest(closings(q, open, min_args))
           IN  <<[args |-> SubSeq(q, open + 1, close - 1),
                  path |-> SubSeq(q, skip_whitespace(q, close + 1), Len(q))]>>

\* the non-empty trimmed pieces of the arguments
arg_slices(args) ==
  SelectSeq([i \in 1..Len(split(args, " ")) |-> trim(split(args, " ")[i])],
            LAMBDA slice : slice # <<>>)

CsvImportArgs_default == [ok |-> TRUE, separator |-> "", quote |-> "", has_header |-> <<>>]

CsvImportArgs_update(self, arg) ==
  IF arg \in {<<"n", "o", "-", "h", "e", "a", "d", "e", "r">>, <<"n", "h">>}
    THEN IF self.has_header = <<>>
           THEN [self EXCEPT !.has_header = <<FALSE>>]
           ELSE [self EXCEPT !.ok = FALSE]
  ELSE IF arg = <<"\\", "t">> \/ (byte_len(arg) = 1 /\ is_ascii(arg))
    THEN LET c == IF arg = <<"\\", "t">> THEN "\t" ELSE arg[1]
         IN  IF self.separator = "" THEN [self EXCEPT !.separator = c]
             ELSE IF self.quote = "" THEN [self EXCEPT !.quote = c]
             ELSE [self EXCEPT !.ok = FALSE]
  ELSE [self EXCEPT !.ok = FALSE]

FwfImportArgs_default ==
  [ok |-> TRUE, widths |-> <<>>, separator_length |-> <<>>, flexible_width |-> <<>>,
   has_header |-> <<>>]

FwfImportArgs_update(self, arg) ==
  IF arg \in {<<"f", "l", "e", "x", "i", "b", "l", "e", "-", "w", "i", "d", "t", "h">>, <<"f", "w">>}
    THEN IF self.flexible_width = <<>>
           THEN [self EXCEPT !.flexible_width = <<TRUE>>]
           ELSE [self EXCEPT !.ok = FALSE]
  ELSE IF arg \in {<<"n", "o", "-", "h", "e", "a", "d", "e", "r">>, <<"n", "h">>}
    THEN IF self.has_header = <<>>
           THEN [self EXCEPT !.has_header = <<FALSE>>]
           ELSE [self EXCEPT !.ok = FALSE]
  ELSE IF parse_usize(arg) # <<>>
    THEN IF self.separator_length = <<>>
           THEN [self EXCEPT !.separator_length = parse_usize(arg)]
           ELSE [self EXCEPT !.widths = Append(@, parse_usize(arg)[1])]
  ELSE [self EXCEPT !.ok = FALSE]

\* try_fold: the first failing update ends the fold
RECURSIVE csv_fold(_, _)
csv_fold(self, slices) ==
  IF slices = <<>> \/ ~self.ok THEN self
  ELSE csv_fold(CsvImportArgs_update(self, Head(slices)), Tail(slices))

RECURSIVE fwf_fold(_, _)
fwf_fold(self, slices) ==
  IF slices = <<>> \/ ~self.ok THEN self
  ELSE fwf_fold(FwfImportArgs_update(self, Head(slices)), Tail(slices))

unwrap_or(opt, default) == IF opt = <<>> THEN default ELSE opt[1]

ImportDsvAct(path, separator, quote, has_header) ==
  [Act("ImportDsv") EXCEPT !.s = path, !.sep = separator, !.quote = quote,
                           !.hdr = has_header]

ImportFwfAct(path, widths, separator_length, flexible_width, has_header) ==
  [Act("ImportFwf") EXCEPT !.s = path, !.widths = widths, !.n = separator_length,
                           !.flex = flexible_width, !.hdr = has_header]

csv_no_args(caps) == Parsed(ImportDsvAct(caps.path, ",", "\"", TRUE))

csv_with_args(caps) ==
  LET args == csv_fold(CsvImportArgs_default, arg_slices(caps.args))
  IN  IF ~args.ok THEN ParseError
      ELSE Parsed(ImportDsvAct(caps.path,
                               IF args.separator = "" THEN "," ELSE args.separator,
                               IF args.quote = "" THEN "\"" ELSE args.quote,
                               unwrap_or(args.has_header, TRUE)))

fwf_no_args(caps) == Parsed(ImportFwfAct(caps.path, <<>>, 0, FALSE, TRUE))

fwf_with_args(caps) ==
  LET args == fwf_fold(FwfImportArgs_default, arg_slices(caps.args))
  IN  IF ~args.ok THEN ParseError
      ELSE Parsed(ImportFwfAct(caps.path, args.widths,
                               unwrap_or(args.separator_length, 0),
                               unwrap_or(args.flexible_width, FALSE),
                               unwrap_or(args.has_header, TRUE)))

KW_CSV == <<"c", "s", "v">>
KW_PARQUET == <<"p", "a", "r", "q", "u", "e", "t">>
KW_JSON == <<"j", "s", "o", "n">>
KW_JSONL == <<"j", "s", "o", "n", "l">>
KW_ARROW == <<"a", "r", "r", "o", "w">>
KW_SQLITE == <<"s", "q", "l", "i", "t", "e">>
KW_FWF == <<"f", "w", "f">>
KW_TSV == <<"t", "s", "v">>

\* find_map over the patterns in declaration order
import_entry(query) ==
  IF captures_no_args(KW_CSV, query) # <<>>
    THEN csv_no_args(captures_no_args(KW_CSV, query)[1])
  ELSE IF captures_with_args(KW_CSV, query, 1) # <<>>
    THEN csv_with_args(captures_with_args(KW_CSV, query, 1)[1])
  ELSE IF captures_no_args(KW_PARQUET, query) # <<>>
    THEN Parsed(ActS("ImportParquet", captures_no_args(KW_PARQUET, query)[1].path))
  ELSE IF captures_no_args(KW_JSON, query) # <<>>
    THEN Parsed([ActS("ImportJson", captures_no_args(KW_JSON, query)[1].path)
                   EXCEPT !.fmt = "Json"])
  ELSE IF captures_no_args(KW_JSONL, query) # <<>>
    THEN Parsed([ActS("ImportJson", captures_no_args(KW_JSONL, query)[1].path)
                   EXCEPT !.fmt = "JsonLine"])
  ELSE IF captures_no_args(KW_ARROW, query) # <<>>
    THEN Parsed(ActS("ImportArrow", captures_no_args(KW_ARROW, query)[1].path))
  ELSE IF captures_no_args(KW_SQLITE, query) # <<>>
    THEN Parsed(ActS("ImportSqlite", captures_no_args(KW_SQLITE, query)[1].path))
  ELSE IF captures_no_args(KW_FWF, query) # <<>>
    THEN fwf_no_args(captures_no_args(KW_FWF, query)[1])
  ELSE IF captures_with_args(KW_FWF, query, 0) # <<>>
    THEN fwf_with_args(captures_with_args(KW_FWF, query, 0)[1])
  ELSE ParseError

first_of(s) == IF split_once(s, " ") = <<>> THEN s ELSE split_once(s, " ")[1]
ExportDsvAct(path, separator) ==
  [Act("ExportDsv") EXCEPT !.s = path, !.sep = separator, !.quote = "\"", !.hdr = TRUE]

export_entry_first_word(query) ==
  LET p == split_once(query, " ")
      dest == IF p = <<>> THEN <<>> ELSE first_of(p[2])
  IN  IF p = <<>> THEN ParseError
      ELSE IF p[1] = KW_CSV THEN Parsed(ExportDsvAct(dest, ","))
      ELSE IF p[1] = KW_TSV THEN Parsed(ExportDsvAct(dest, "\t"))
      ELSE IF p[1] = KW_PARQUET THEN Parsed(ActS("ExportParquet", dest))
      ELSE IF p[1] = KW_JSON THEN Parsed([ActS("ExportJson", dest) EXCEPT !.fmt = "Json"])
      ELSE IF p[1] = KW_JSONL
        THEN Parsed([ActS("ExportJson", dest) EXCEPT !.fmt = "JsonLine"])
      ELSE IF p[1] = KW_ARROW THEN Parsed(ActS("ExportArrow", dest))
      ELSE ParseError
export_entry(query) ==
  LET p == split_once(query, " ")
  IN  IF p = <<>> THEN ParseError
      ELSE IF p[1] = KW_CSV THEN Parsed(ExportDsvAct(p[2], ","))
      ELSE IF p[1] = KW_TSV THEN Parsed(ExportDsvAct(p[2], "\t"))
      ELSE IF p[1] = KW_PARQUET THEN Parsed(ActS("ExportParquet", p[2]))
      ELSE IF p[1] = KW_JSON THEN Parsed([ActS("ExportJson", p[2]) EXCEPT !.fmt = "Json"])
      ELSE IF p[1] = KW_JSONL
        THEN Parsed([ActS("ExportJson", p[2]) EXCEPT !.fmt = "JsonLine"])
      ELSE IF p[1] = KW_ARROW THEN Parsed(ActS("ExportArrow", p[2]))
      ELSE ParseError

\* --- the registry: one parser per prefix
TypeNames ==
  <<<<"i", "n", "t">>, <<"f", "l", "o", "a", "t">>, <<"b", "o", "o", "l", "e", "a", "n">>, <<"d", "a", "t", "e">>, <<"d", "a", "t", "e", "t", "i", "m", "e">>>>
TYPE_ALL == <<"a", "l", "l">>
PAGE == <<"p", "a", "g", "e">>
HALF == <<"h", "a", "l", "f">>

\* TypeInferer: one flag per type, in the order of TypeNames
RECURSIVE infer_fold(_, _)
infer_fold(ti, slices) ==
  IF slices = <<>> THEN <<ti>>
  ELSE IF Head(slices) = TYPE_ALL
    THEN infer_fold([i \in 1..Len(TypeNames) |-> 1], Tail(slices))
  ELSE IF \E i \in 1..Len(TypeNames) : TypeNames[i] = Head(slices)
    THEN infer_fold([i \in 1..Len(TypeNames) |->
                       IF TypeNames[i] = Head(slices) THEN 1 ELSE ti[i]], Tail(slices))
  ELSE <<>>

\* shell_words::split on input without quotes or escapes: the words
shell_words_split(s) == SelectSeq(split(s, " "), LAMBDA w : w # <<>>)

go_entry(lines, full_page, half_page, by_lines) ==
  IF lines = PAGE THEN Parsed(Act(full_page))
  ELSE IF lines = HALF THEN Parsed(Act(half_page))
  ELSE IF parse_usize(lines) # <<>> THEN Parsed(ActN(by_lines, parse_usize(lines)[1]))
  ELSE ParseError

goto_entry_wrapping(line) ==
  IF line = <<>> THEN Parsed(Act("GoToLineShow"))
  ELSE IF parse_usize(line) # <<>>
    THEN Parsed(ActN("GotoLine", parse_usize(line)[1] - 1))
  ELSE ParseError
goto_entry(line) ==
  IF line = <<>> THEN Parsed(Act("GoToLineShow"))
  ELSE IF parse_usize(line) # <<>>
    THEN Parsed(ActN("GotoLine", saturating_sub(parse_usize(line)[1], 1)))
  ELSE ParseError

inline_entry(query, query_type, action) ==
  IF query = <<>> THEN Parsed([Act("InlineQueryShow") EXCEPT !.fmt = query_type])
  ELSE Parsed(ActS(action, query))

index_entry(query, action) ==
  IF parse_usize(query) # <<>> THEN Parsed(ActN(action, parse_usize(query)[1]))
  ELSE ParseError

infer_entry(args) ==
  LET ti == infer_fold([i \in 1..Len(TypeNames) |-> 0], split(args, " "))
  IN  IF ti = <<>> THEN ParseError
      ELSE Parsed([Act("TableInferColumns") EXCEPT !.widths = ti[1]])

scatter_entry(args) ==
  LET words == shell_words_split(args)
  IN  IF Len(words) < 2 THEN ParseError
      ELSE Parsed([Act("ScatterPlot") EXCEPT !.args = words])

hist_entry(col) ==
  LET words == shell_words_split(col)
  IN  IF Len(words) = 1 THEN Parsed([ActS("HistogramPlot", words[1]) EXCEPT !.n = 38])
      ELSE IF Len(words) = 2 /\ parse_usize(words[2]) # <<>>
        THEN Parsed([ActS("HistogramPlot", words[1]) EXCEPT !.n = parse_usize(words[2])[1]])
      ELSE ParseError

registary(s1, s2) ==
  CASE s1 \in {<<"Q">>, <<"q", "u", "e", "r", "y">>} -> Parsed(ActS("TableQuery", s2))
    [] s1 \in {<<"q">>, <<"q", "u", "i", "t">>} -> Parsed(Act("Quit"))
    [] s1 = <<"g", "o", "t", "o">> -> goto_entry(s2)
    [] s1 = <<"g", "o", "u", "p">> ->
         go_entry(s2, "TableGoUpFullPage", "TableGoUpHalfPage", "TableGoUp")
    [] s1 = <<"g", "o", "d", "o", "w", "n">> ->
         go_entry(s2, "TableGoDownFullPage", "TableGoDownHalfPage", "TableGoDown")
    [] s1 = <<"r", "e", "s", "e", "t">> -> Parsed(Act("TableReset"))
    [] s1 = <<"h", "e", "l", "p">> -> Parsed(Act("Help"))
    [] s1 \in {<<"S">>, <<"s", "e", "l", "e", "c", "t">>} -> Parsed(ActS("TableSelect", s2))
    [] s1 \in {<<"F">>, <<"f", "i", "l", "t", "e", "r">>} -> inline_entry(s2, "Filter", "TableFilter")
    [] s1 \in {<<"O">>, <<"o", "r", "d", "e", "r">>} -> inline_entry(s2, "Order", "TableOrder")
    [] s1 = <<"s", "c", "h", "e", "m", "a">> -> Parsed(Act("SwitchToSchema"))
    [] s1 = <<"r", "a", "n", "d">> -> Parsed(Act("TableGotoRandom"))
    [] s1 = <<"t", "a", "b", "n">> -> Parsed(ActS("TabNewQuery", s2))
    [] s1 = <<"t", "a", "b", "r">> -> index_entry(s2, "TabRemove")
    [] s1 = <<"t", "a", "b">> -> index_entry(s2, "TabSelect")
    [] s1 = <<"i", "n", "f", "e", "r">> -> infer_entry(s2)
    [] s1 = <<"r", "e", "g", "i", "s", "t", "e", "r">> -> Parsed(ActS("RegisterDataFrame", s2))
    [] s1 = <<"s", "c", "a", "t", "t", "e", "r">> -> scatter_entry(s2)
    [] s1 = <<"h", "i", "s", "t">> -> hist_entry(s2)
    [] s1 = <<"t", "h", "e", "m", "e">> -> Parsed(Act("ThemeSelectorShow"))
    [] s1 = <<"e", "x", "p", "o", "r", "t">> -> export_entry(s2)
    [] s1 = <<"i", "m", "p", "o", "r", "t">> -> import_entry(s2)
    [] OTHER -> ParseError

parse_into_action_short_bare(line) ==
  LET p == split_once(line, " ")
  IN  IF p = <<>> THEN registary(line, <<>>)
      ELSE IF Len(p[1]) = 1 THEN registary(p[1], <<>>)
      ELSE registary(p[1], p[2])

parse_into_action(line) ==
  LET p == split_once(line, " ")
  IN  IF p = <<>> THEN registary(line, <<>>) ELSE registary(p[1], p[2])

\* ---------------------------------------------------------------- palette
\* Option<PaletteState>: <<>> or <<[text, cursor, selected]>>; selected is the
\* highlighted row of the history list (<<>> is None)
PaletteState_new(text) == [text |-> text, cursor |-> Len(text), selected |-> <<>>]
show_palette(text) == <<PaletteState_new(text)>>
hide_palette == <<>>

\* --------------------------------------------------------- reducer (query)
SELECT == <<"S", "E", "L", "E", "C", "T", " ">>
FROM_CURRENT == <<" ", "F", "R", "O", "M", " ", "_">>
ORDER_BY == <<" ", "O", "R", "D", "E", "R", " ", "B", "Y", " ">>
WHERE == <<" ", "w", "h", "e", "r", "e", " ">>

emit(a, follow_up) ==
  /\ Ok(a, follow_up)
  /\ UNCHANGED <<tabs, selected_tab, content, error, running, paletteVars,
                 themeVars, schemaVars>>

TableSelect(a) == emit(a, ActS("TableQuery", SELECT \o a.s \o FROM_CURRENT))
TableOrder(a) == emit(a, ActS("TableQuery", QUERY_CURRENT \o ORDER_BY \o a.s))
TableFilter(a) == emit(a, ActS("TableQuery", QUERY_CURRENT \o WHERE \o a.s))

TableReset_reruns_on_view(a) ==
  emit(a, IF tabs_has_selected /\ tabs_selected.kind.t = "Name"
            THEN ActS("TableQuery", QUERY_CURRENT)
          ELSE IF tabs_has_selected /\ tabs_selected.kind.t = "Query"
            THEN ActS("TableQuery", tabs_selected.kind.s)
          ELSE None)

TableReset(a) ==
  emit(a, IF tabs_has_selected /\ tabs_selected.kind.t = "Name"
            THEN ActS("TableQuery", select_all_from(tabs_selected.kind.s))
          ELSE IF tabs_has_selected /\ tabs_selected.kind.t = "Query"
            THEN ActS("TableQuery", tabs_selected.kind.s)
          ELSE None)

\* ------------------------------------------------------- reducer (palette)
DismissErrorAndShowPalette(a) ==
  /\ error' = ""
  /\ palette' = show_palette(<<>>)
  /\ Ok(a, None)
  /\ UNCHANGED <<tabs, selected_tab, content, running, history, themeVars,
                 schemaVars>>

PaletteShow(a) ==
  /\ palette' = show_palette(a.s)
  /\ Ok(a, None)
  /\ UNCHANGED <<tabs, selected_tab, content, error, running, history, themeVars,
                 schemaVars>>

PaletteInsertSelectedOrCommit_forgets(a) ==
  /\ IF palette # <<>> /\ palette[1].selected # <<>>
       THEN /\ palette' = IF palette[1].selected[1] < Len(history)
                            THEN <<PaletteState_new(history[palette[1].selected[1] + 1])>>
                            ELSE palette
            /\ Ok(a, None)
            /\ UNCHANGED <<history, error>>
     ELSE IF palette # <<>>
       THEN /\ palette' = hide_palette
            /\ IF palette[1].text = <<>>
                 THEN /\ Ok(a, Act("PaletteDeselectOrDismiss"))
                      /\ UNCHANGED <<history, error>>
                 ELSE /\ Len(history) < MaxHistory
                      /\ UNCHANGED history
                      /\ LET res == parse_into_action(palette[1].text)
                         IN  IF res.st = "ok"
                               THEN Ok(a, res.act) /\ UNCHANGED error
                               ELSE Err(a, "Invalid command")
     ELSE /\ Ok(a, None)
          /\ UNCHANGED <<palette, history, error>>
  /\ UNCHANGED <<tabs, selected_tab, content, running, themeVars, schemaVars>>

PaletteInsertSelectedOrCommit_records_empty(a) ==
  /\ IF palette # <<>> /\ palette[1].selected # <<>>
       THEN /\ palette' = IF palette[1].selected[1] < Len(history)
                            THEN <<PaletteState_new(history[palette[1].selected[1] + 1])>>
                            ELSE palette
            /\ Ok(a, None)
            /\ UNCHANGED <<history, error>>
     ELSE IF palette # <<>>
       THEN /\ palette' = hide_palette
            /\ Len(history) < MaxHistory
            /\ history' = Append(history, palette[1].text)
            /\ IF palette[1].text = <<>>
                 THEN Ok(a, Act("PaletteDeselectOrDismiss")) /\ UNCHANGED error
                 ELSE LET res == parse_into_action(palette[1].text)
                      IN  IF res.st = "ok"
                            THEN Ok(a, res.act) /\ UNCHANGED error
                            ELSE Err(a, "Invalid command")
     ELSE /\ Ok(a, None)
          /\ UNCHANGED <<palette, history, error>>
  /\ UNCHANGED <<tabs, selected_tab, content, running, themeVars, schemaVars>>
PaletteInsertSelectedOrCommit(a) ==
  /\ IF palette # <<>> /\ palette[1].selected # <<>>
       THEN /\ palette' = IF palette[1].selected[1] < Len(history)
                            THEN <<PaletteState_new(history[palette[1].selected[1] + 1])>>
                            ELSE palette
            /\ Ok(a, None)
            /\ UNCHANGED <<history, error>>
     ELSE IF palette # <<>>
       THEN /\ palette' = hide_palette
            /\ IF palette[1].text = <<>>
                 THEN /\ Ok(a, Act("PaletteDeselectOrDismiss"))
                      /\ UNCHANGED <<history, error>>
                 ELSE /\ Len(history) < MaxHistory
                      /\ history' = Append(history, palette[1].text)
                      /\ LET res == parse_into_action(palette[1].text)
                         IN  IF res.st = "ok"
                               THEN Ok(a, res.act) /\ UNCHANGED error
                               ELSE Err(a, "Invalid command")
     ELSE /\ Ok(a, None)
          /\ UNCHANGED <<palette, history, error>>
  /\ UNCHANGED <<tabs, selected_tab, content, running, themeVars, schemaVars>>

PaletteDeselectOrDismiss(a) ==
  /\ palette' = IF palette = <<>> THEN palette
                ELSE IF palette[1].selected # <<>>
                  THEN <<[palette[1] EXCEPT !.selected = <<>>]>>
                ELSE hide_palette
  /\ Ok(a, None)
  /\ UNCHANGED <<tabs, selected_tab, content, error, running, history, themeVars,
                 schemaVars>>

palette_edit_opens(a, edited) ==
  /\ palette' = <<edited>>
  /\ Ok(a, None)
  /\ UNCHANGED <<tabs, selected_tab, content, error, running, history, themeVars,
                 schemaVars>>
palette_edit(a, edited) ==
  /\ palette' = IF palette = <<>> THEN palette ELSE <<edited>>
  /\ Ok(a, None)
  /\ UNCHANGED <<tabs, selected_tab, content, error, running, history, themeVars,
                 schemaVars>>

opened_palette == IF palette = <<>> THEN PaletteState_new(<<>>) ELSE palette[1]
last_history == saturating_sub(Len(history), 1)

PaletteSelectPrevious(a) ==
  palette_edit(a, [opened_palette EXCEPT !.selected =
                     IF @ = <<>> THEN <<last_history>> ELSE <<saturating_sub(@[1], 1)>>])

PaletteSelectNext(a) ==
  palette_edit(a, [opened_palette EXCEPT !.selected =
                     IF @ = <<>> THEN <<0>> ELSE <<Min(@[1] + 1, last_history)>>])

PaletteInsert(a) ==
  /\ Len(opened_palette.text) < MaxInput
  /\ palette_edit(a, [input_insert(opened_palette, a.sep) EXCEPT !.selected = <<>>])

PaletteDeletePrev(a) == palette_edit(a, input_delete_prev(opened_palette))
PaletteDeleteNext(a) == palette_edit(a, input_delete_next(opened_palette))
PaletteGotoStart(a) == palette_edit(a, input_goto(opened_palette, 0))
PaletteGotoEnd(a) == palette_edit(a, input_goto(opened_palette, Len(opened_palette.text)))

PaletteGotoNext(a) ==
  palette_edit(a, input_goto(opened_palette,
                             Min(opened_palette.cursor + 1, Len(opened_palette.text))))

PaletteGotoPrev(a) ==
  palette_edit(a, input_goto(opened_palette, saturating_sub(opened_palette.cursor, 1)))

\* The word-wise moves and deletions are those of the input widget, which
\* is outside the reducer: a move ends at some position on its side of the
\* cursor, a deletion removes some number of characters on its side.
PaletteGotoNextWord(a) ==
  \E pos \in opened_palette.cursor..Len(opened_palette.text) :
    palette_edit(a, input_goto(opened_palette, pos))

PaletteGotoPrevWord(a) ==
  \E pos \in 0..opened_palette.cursor :
    palette_edit(a, input_goto(opened_palette, pos))

PaletteDeleteNextWord(a) ==
  \E pos \in opened_palette.cursor..Len(opened_palette.text) :
    palette_edit(a, [opened_palette EXCEPT !.text =
                       SubSeq(@, 1, opened_palette.cursor) \o SubSeq(@, pos + 1, Len(@))])

PaletteDeletePrevWord(a) ==
  \E pos \in 0..opened_palette.cursor :
    palette_edit(a, [opened_palette EXCEPT !.text =
                       SubSeq(@, 1, pos) \o SubSeq(@, opened_palette.cursor + 1, Len(@)),
                                           !.cursor = pos])

\* the side panel of the tab list, when shown, has some row selected or none
TabPanelSelect(a) ==
  /\ \E selected \in {<<>>} \cup {<<idx>> : idx \in 0..MaxIdx} :
       Ok(a, IF selected = <<>> THEN None ELSE ActN("TabSelect", selected[1]))
  /\ UNCHANGED <<tabs, selected_tab, content, error, running, paletteVars,
                 themeVars, schemaVars>>
\* ------------------------------------------------------- reducer (theme)
\* The configured theme is an index into Theme::all(); Option<ThemeSelector>
\* is <<>> or <<[rollback, selected, input]>>, the selector remembering the
\* theme that was configured when it was opened, the highlighted row of its
\* list, if any, and the text of its input.
MaxTheme == 2
Themes == 0..MaxTheme
ThemeSelector_new(rollback_theme) == [rollback |-> rollback_theme, selected |-> <<>>, input |-> <<>>]
into_rollback_theme(theme_selector_state) == theme_selector_state.rollback

ThemeSelectorShow(a) ==
  /\ theme_selector' = <<ThemeSelector_new(theme)>>
  /\ Ok(a, None)
  /\ UNCHANGED <<tabs, selected_tab, content, error, running, paletteVars, theme,
                 schemaVars>>

PreviewTheme(a) ==
  /\ theme' = a.n
  /\ Ok(a, None)
  /\ UNCHANGED <<tabs, selected_tab, content, error, running, paletteVars,
                 theme_selector, schemaVars>>

\* fs::write and Config::store may fail
StoreConfig(a) ==
  /\ \/ Ok(a, None) /\ UNCHANGED error
     \/ Err(a, "store")
  /\ UNCHANGED <<tabs, selected_tab, content, running, paletteVars, themeVars,
                 schemaVars>>

ThemeSelectorRollback_to_default(a) ==
  /\ theme_selector' = <<>>
  /\ Ok(a, IF theme_selector # <<>> THEN ActN("PreviewTheme", 0) ELSE None)
  /\ UNCHANGED <<tabs, selected_tab, content, error, running, paletteVars, theme,
                 schemaVars>>

ThemeSelectorRollback(a) ==
  /\ theme_selector' = <<>>
  /\ Ok(a, IF theme_selector # <<>>
             THEN ActN("PreviewTheme", into_rollback_theme(theme_selector[1]))
             ELSE None)
  /\ UNCHANGED <<tabs, selected_tab, content, error, running, paletteVars, theme,
                 schemaVars>>

ThemeSelectorCommit(a) ==
  /\ theme_selector' = <<>>
  /\ Ok(a, IF theme_selector # <<>> THEN Act("StoreConfig") ELSE None)
  /\ UNCHANGED <<tabs, selected_tab, content, error, running, paletteVars, theme,
                 schemaVars>>
theme_selector_edit(a, edited) ==
  /\ theme_selector' = IF theme_selector = <<>> THEN theme_selector ELSE <<edited>>
  /\ Ok(a, None)
  /\ UNCHANGED <<tabs, selected_tab, content, error, running, paletteVars, theme,
                 schemaVars>>

opened_theme_selector ==
  IF theme_selector = <<>> THEN ThemeSelector_new(theme) ELSE theme_selector[1]

ThemeSelectorSelectPrev(a) ==
  theme_selector_edit(a, [opened_theme_selector EXCEPT !.selected =
                            IF @ = <<>> THEN <<MaxTheme>> ELSE <<saturating_sub(@[1], 1)>>])

\* the preview of the highlighted theme that the source holds in a comment
ThemeSelectorSelectNext_previews(a) ==
  LET edited == [opened_theme_selector EXCEPT !.selected =
                   IF @ = <<>> THEN <<0>> ELSE <<Min(@[1] + 1, MaxTheme)>>]
  IN  /\ theme_selector' = IF theme_selector = <<>> THEN theme_selector ELSE <<edited>>
      /\ Ok(a, IF theme_selector = <<>> THEN None
                ELSE ActN("PreviewTheme", edited.selected[1]))
      /\ UNCHANGED <<tabs, selected_tab, content, error, running, paletteVars, theme,
                     schemaVars>>

ThemeSelectorSelectNext(a) ==
  theme_selector_edit(a, [opened_theme_selector EXCEPT !.selected =
                            IF @ = <<>> THEN <<0>> ELSE <<Min(@[1] + 1, MaxTheme)>>])

\* the input widget handles the key: it inserts the character, deletes one
\* or only moves its cursor
ThemeSelectorHandleEvent(a) ==
  \E text \in {opened_theme_selector.input,
                SubSeq(opened_theme_selector.input, 1, Len(opened_theme_selector.input) - 1)}
                 \cup (IF Len(opened_theme_selector.input) < MaxInput
                         THEN {Append(opened_theme_selector.input, a.sep)} ELSE {}) :
    theme_selector_edit(a, [opened_theme_selector EXCEPT !.input = text])
\* ------------------------------------------------------------ specification
\* a command line together with the parts it was composed of
Line(text) ==
  [text |-> text, kw |-> <<>>, gap |-> <<>>, bracket |-> FALSE, opts |-> <<>>,
   path |-> <<>>]

NoLine == Line(<<>>)
NoCall == [base |-> <<>>, before |-> <<>>, name |-> <<>>]
NoFit == [self |-> <<>>, width |-> 0, result |-> <<>>]
NoSubseq == [self |-> <<>>, other |-> <<>>, result |-> <<>>]

InitCommon ==
  /\ selected_tab = 0
  /\ content = "Tabular"
  /\ schema_selected = <<>>
  /\ palette = <<>>
  /\ history = <<>>
  /\ error = ""
  /\ running = TRUE
  /\ theme = 0
  /\ theme_selector = <<>>
  /\ pending = None
  /\ panicked = FALSE
  /\ last = [act |-> None, res |-> "none"]
  /\ parsed = NotParsed
  /\ reg = NoCall

\* The application starts with the tables given on the command line loaded:
\* one catalog entry and one tab per table.
Init ==
  /\ InitCommon
  /\ subseq = NoSubseq
  /\ fit = NoFit
  /\ cmd = NoLine
  /\ catalog = <<[name |-> NAME_T, frame |-> FullFrame, source |-> File_source(PATH_P)]>>
  /\ tabs = <<PaneState_new(FullFrame, Name_kind(NAME_T))>>

NAME_T_2 == <<"t", "_", "2">>
QueryInputs == {NAME_T, NAME_T_2, QUERY_CURRENT}
RegisterInputs == {NAME_T, NAME_U}

execute(a) ==
  CASE a.type = "TabSelect" -> TabSelect(a)
    [] a.type = "TabRemove" -> TabRemove(a)
    [] a.type = "TabNewQuery" -> TabNewQuery(a)
    [] a.type = "TableQuery" -> TableQuery(a)
    [] a.type = "TableSetDataFrame" -> TableSetDataFrame(a)
    [] a.type = "TableFilter" -> TableFilter(a)
    [] a.type = "TableSelect" -> TableSelect(a)
    [] a.type = "TableOrder" -> TableOrder(a)
    [] a.type = "TableReset" -> TableReset(a)
    [] a.type = "GotoLine" -> GotoLine(a)
    [] a.type = "Help" -> Help(a)
    [] a.type = "Quit" -> Quit(a)
    [] a.type = "SwitchToSchema" -> SwitchToSchema(a)
    [] a.type = "RegisterDataFrame" -> RegisterDataFrame(a)
    [] a.type = "PaletteDeselectOrDismiss" -> PaletteDeselectOrDismiss(a)
    [] a.type = "PreviewTheme" -> PreviewTheme(a)
    [] a.type = "StoreConfig" -> StoreConfig(a)

FollowUp == pending # None /\ ~panicked /\ execute(pending)

\* The tab list: creation, selection and removal of tabs.
NextTabs ==
  \/ Dismissable /\ DismissError(Act("DismissError"))
  \/ Fresh /\ Quit(Act("Quit"))
  \/ Fresh /\ SwitchToSchema(Act("SwitchToSchema"))
  \/ \E i \in 0..MaxIdx : Fresh /\ TabSelect(ActN("TabSelect", i))
  \/ \E i \in 0..MaxIdx : Fresh /\ TabRemove(ActN("TabRemove", i))
  \/ Fresh /\ TabPrev(Act("TabPrev"))
  \/ Fresh /\ TabNext(Act("TabNext"))
  \/ Fresh /\ TabRemoveOrQuit(Act("TabRemoveOrQuit"))
  \/ \E q \in QueryInputs : Fresh /\ TabNewQuery(ActS("TabNewQuery", q))
  \/ Fresh /\ Help(Act("Help"))
  \/ Fresh /\ ImportDsv(ActS("ImportDsv", PATH_P))
  \/ Fresh /\ ImportParquet(ActS("ImportParquet", PATH_P))
  \/ Fresh /\ ImportJson(ActS("ImportJson", PATH_P))
  \/ Fresh /\ ImportArrow(ActS("ImportArrow", PATH_P))
  \/ Fresh /\ ImportSqlite(ActS("ImportSqlite", PATH_P))
  \/ Fresh /\ ImportFwf(ActS("ImportFwf", PATH_P))
  \/ FollowUp

SpecTabs == Init /\ [][NextTabs]_vars

\* The tab list without imports: navigation, creation and removal of tabs.
NavQueries == {NAME_T, QUERY_CURRENT}

NextNav ==
  \/ Dismissable /\ DismissError(Act("DismissError"))
  \/ \E i \in 0..MaxIdx : Fresh /\ TabSelect(ActN("TabSelect", i))
  \/ \E i \in 0..MaxIdx : Fresh /\ TabRemove(ActN("TabRemove", i))
  \/ Fresh /\ TabPrev(Act("TabPrev"))
  \/ Fresh /\ TabNext(Act("TabNext"))
  \/ Fresh /\ TabRemoveOrQuit(Act("TabRemoveOrQuit"))
  \/ Fresh /\ TabRename([ActN("TabRename", selected_tab) EXCEPT !.s = NAME_U])
  \/ \E q \in NavQueries : Fresh /\ TabNewQuery(ActS("TabNewQuery", q))
  \/ Fresh /\ Help(Act("Help"))
  \/ FollowUp

SpecNav == Init /\ [][NextNav]_vars

\* Queries on the tabs and their reset, with tables unloaded in between.
NextReset ==
  \/ Dismissable /\ DismissError(Act("DismissError"))
  \/ Fresh /\ TableReset(Act("TableReset"))
  \/ Fresh /\ TableFilter(ActS("TableFilter", <<"a">>))
  \/ Fresh /\ TableOrder(ActS("TableOrder", <<"a">>))
  \/ Fresh /\ TableSelect(ActS("TableSelect", <<"a">>))
  \/ Fresh /\ TabNewQuery(ActS("TabNewQuery", QUERY_CURRENT))
  \/ Fresh /\ Help(Act("Help"))
  \/ \E i \in 0..MaxIdx : Fresh /\ TabSelect(ActN("TabSelect", i))
  \/ Fresh /\ SwitchToSchema(Act("SwitchToSchema"))
  \/ Fresh /\ SchemaNamesSelectFirst(Act("SchemaNamesSelectFirst"))
  \/ Fresh /\ SchemaUnloadTable(Act("SchemaUnloadTable"))
  \/ FollowUp

SpecReset == Init /\ [][NextReset]_vars

\* The catalog as seen from the reducer: registration, the schema view.
NextSchema ==
  \/ Dismissable /\ DismissError(Act("DismissError"))
  \/ Fresh /\ SwitchToSchema(Act("SwitchToSchema"))
  \/ Fresh /\ SwitchToTabulars(Act("SwitchToTabulars"))
  \/ Fresh /\ ImportParquet(ActS("ImportParquet", PATH_P))
  \/ \E n \in RegisterInputs : Fresh /\ RegisterDataFrame(ActS("RegisterDataFrame", n))
  \/ Fresh /\ SchemaOpenTable(Act("SchemaOpenTable"))
  \/ Fresh /\ SchemaUnloadTable(Act("SchemaUnloadTable"))
  \/ Fresh /\ SchemaNamesSelectPrev(Act("SchemaNamesSelectPrev"))
  \/ Fresh /\ SchemaNamesSelectNext(Act("SchemaNamesSelectNext"))
  \/ Fresh /\ SchemaNamesSelectFirst(Act("SchemaNamesSelectFirst"))
  \/ Fresh /\ SchemaNamesSelectLast(Act("SchemaNamesSelectLast"))
  \/ \E i \in 0..MaxIdx : Fresh /\ TabSelect(ActN("TabSelect", i))
  \/ FollowUp

SpecSchema == Init /\ [][NextSchema]_vars

\* One pane with a frame of any height up to MaxHeight: moving the selection.
MaxHeight == 4
MaxLines == 5
ScrollFrame(h) == [i \in 1..h |-> i]

InitScroll ==
  /\ InitCommon
  /\ subseq = NoSubseq
  /\ fit = NoFit
  /\ cmd = NoLine
  /\ \E h \in 0..MaxHeight :
       /\ catalog = <<[name |-> NAME_T, frame |-> ScrollFrame(h),
                       source |-> File_source(PATH_P)]>>
       /\ tabs = <<PaneState_new(ScrollFrame(h), Name_kind(NAME_T))>>

NextScroll ==
  \/ \E n \in 0..MaxLines : Fresh /\ GotoLine(ActN("GotoLine", n))
  \/ \E n \in 0..MaxLines : Fresh /\ TableGoUp(ActN("TableGoUp", n))
  \/ \E n \in 0..MaxLines : Fresh /\ TableGoDown(ActN("TableGoDown", n))
  \/ Fresh /\ TableGoUpHalfPage(Act("TableGoUpHalfPage"))
  \/ Fresh /\ TableGoUpFullPage(Act("TableGoUpFullPage"))
  \/ Fresh /\ TableGoDownHalfPage(Act("TableGoDownHalfPage"))
  \/ Fresh /\ TableGoDownFullPage(Act("TableGoDownFullPage"))
  \/ Fresh /\ TableGotoFirst(Act("TableGotoFirst"))
  \/ Fresh /\ TableGotoLast(Act("TableGotoLast"))

SpecScroll == InitScroll /\ [][NextScroll]_vars
\* The subsequence test on its own: one call for every pair of texts.
MaxText == 3
Letters == {"a", "b", "c"}
Texts == UNION {[1..k -> Letters] : k \in 0..MaxText}

InitSubsequence ==
  /\ InitCommon
  /\ cmd = NoLine
  /\ catalog = <<>>
  /\ tabs = <<>>
  /\ \E self \in Texts, other \in Texts :
       subseq = [self |-> self, other |-> other, result |-> <<>>]
  /\ fit = NoFit

HasSubsequence ==
  /\ subseq.result = <<>>
  /\ subseq' = [subseq EXCEPT !.result = <<has_subsequence(subseq.self, subseq.other)>>]
  /\ UNCHANGED <<tabs, selected_tab, content, schema_selected, palette, history,
                 error, running, catalog, theme, theme_selector, pending, panicked,
                 last, cmd, parsed, reg, fit>>

NextSubsequence == HasSubsequence

SpecSubsequence == InitSubsequence /\ [][NextSubsequence]_vars
\* The fitting of a string to a display width on its own: one call for
\* every string and every width.
MaxWidth == 7
FitChars == {"a", CJK_NI, COMBINING_ACUTE}
FitTexts == UNION {[1..k -> FitChars] : k \in 0..MaxText}

InitFit ==
  /\ InitCommon
  /\ cmd = NoLine
  /\ subseq = NoSubseq
  /\ catalog = <<>>
  /\ tabs = <<>>
  /\ \E self \in FitTexts, width \in 0..MaxWidth :
       fit = [self |-> self, width |-> width, result |-> <<>>]

FitToWidth ==
  /\ fit.result = <<>>
  /\ fit' = [fit EXCEPT !.result = <<fit_to_width(fit.self, fit.width)>>]
  /\ UNCHANGED <<tabs, selected_tab, content, schema_selected, palette, history,
                 error, running, catalog, theme, theme_selector, pending, panicked,
                 last, cmd, parsed, reg, subseq>>

NextFit == FitToWidth

SpecFit == InitFit /\ [][NextFit]_vars
\* The theme selector: opening it, previewing themes, committing, rolling back.
NextTheme ==
  \/ Dismissable /\ DismissError(Act("DismissError"))
  \/ Fresh /\ theme_selector = <<>> /\ ThemeSelectorShow(Act("ThemeSelectorShow"))
  \/ \E t \in Themes : Fresh /\ PreviewTheme(ActN("PreviewTheme", t))
  \/ Fresh /\ ThemeSelectorRollback(Act("ThemeSelectorRollback"))
  \/ Fresh /\ ThemeSelectorCommit(Act("ThemeSelectorCommit"))
  \/ Fresh /\ Help(Act("Help"))
  \/ FollowUp

SpecTheme == Init /\ [][NextTheme]_vars
\* The theme selector under its keymap: while it is open only its own
\* actions are dispatched.
NextSelector ==
  \/ Dismissable /\ DismissError(Act("DismissError"))
  \/ Fresh /\ theme_selector = <<>> /\ ThemeSelectorShow(Act("ThemeSelectorShow"))
  \/ \E t \in Themes : Fresh /\ theme_selector = <<>> /\ PreviewTheme(ActN("PreviewTheme", t))
  \/ Fresh /\ ThemeSelectorSelectPrev(Act("ThemeSelectorSelectPrev"))
  \/ Fresh /\ ThemeSelectorSelectNext(Act("ThemeSelectorSelectNext"))
  \/ \E key \in {"a", "b"} :
       Fresh /\ ThemeSelectorHandleEvent([Act("ThemeSelectorHandleEvent") EXCEPT !.sep = key])
  \/ Fresh /\ ThemeSelectorRollback(Act("ThemeSelectorRollback"))
  \/ Fresh /\ ThemeSelectorCommit(Act("ThemeSelectorCommit"))
  \/ FollowUp

SpecSelector == Init /\ [][NextSelector]_vars

\* Every action that hands over a follow-up, from the keymap and from the
\* palette, with the chain it starts.  Tabs are added while there is at most
\* one, files are imported into an empty tab list.
ChainInputs == {<<"F", " ", "a">>}

\* the keymap's context: an open theme selector takes the keys before an open
\* palette, an open palette before the schema view and the table
InTable == Fresh /\ theme_selector = <<>> /\ palette = <<>> /\ content = "Tabular"
InSchema == Fresh /\ theme_selector = <<>> /\ palette = <<>> /\ content = "Schema"
InPalette == Fresh /\ theme_selector = <<>>

NextChain ==
  \/ Dismissable /\ DismissError(Act("DismissError"))
  \/ \E text \in ChainInputs \cup {<<>>} : InTable /\ PaletteShow(ActS("PaletteShow", text))
  \/ InPalette /\ PaletteInsertSelectedOrCommit(Act("PaletteInsertSelectedOrCommit"))
  \/ InTable /\ TableSelect(ActS("TableSelect", <<"a">>))
  \/ InTable /\ TableOrder(ActS("TableOrder", <<"a">>))
  \/ InTable /\ TableFilter(ActS("TableFilter", <<"a">>))
  \/ InTable /\ TableReset(Act("TableReset"))
  \/ InTable /\ Len(tabs) <= 1 /\ TabNewQuery(ActS("TabNewQuery", NAME_T))
  \/ InTable /\ TabRemove(ActN("TabRemove", 0))
  \/ InTable /\ TabPrev(Act("TabPrev"))
  \/ InTable /\ TabNext(Act("TabNext"))
  \/ InTable /\ TabRemoveOrQuit(Act("TabRemoveOrQuit"))
  \/ InTable /\ Len(tabs) <= 1 /\ Help(Act("Help"))
  \/ InTable /\ Len(tabs) = 0 /\ Len(catalog) <= 1 /\ ImportParquet(ActS("ImportParquet", PATH_P))
  \/ InTable /\ Len(tabs) = 0 /\ Len(catalog) <= 1 /\ ImportJson(ActS("ImportJson", PATH_P))
  \/ InTable /\ Len(tabs) = 0 /\ Len(catalog) <= 1 /\ ImportArrow(ActS("ImportArrow", PATH_P))
  \/ InTable /\ Len(tabs) = 0 /\ Len(catalog) <= 1 /\ ImportSqlite(ActS("ImportSqlite", PATH_P))
  \/ InTable /\ Len(tabs) = 0 /\ Len(catalog) <= 1 /\ ImportFwf(ActS("ImportFwf", PATH_P))
  \/ InTable /\ SwitchToSchema(Act("SwitchToSchema"))
  \/ InSchema /\ SchemaNamesSelectFirst(Act("SchemaNamesSelectFirst"))
  \/ InSchema /\ Len(tabs) <= 1 /\ SchemaOpenTable(Act("SchemaOpenTable"))
  \/ InTable /\ TabPanelSelect(Act("TabPanelSelect"))
  \/ InTable /\ ThemeSelectorShow(Act("ThemeSelectorShow"))
  \/ InPalette /\ palette = <<>> /\ ThemeSelectorRollback(Act("ThemeSelectorRollback"))
  \/ Fresh /\ theme_selector # <<>> /\ ThemeSelectorRollback(Act("ThemeSelectorRollback"))
  \/ Fresh /\ ThemeSelectorCommit(Act("ThemeSelectorCommit"))
  \/ FollowUp

SpecChain == Init /\ [][NextChain]_vars
\* The two views: every action whose chain ends in TabSelect, from the table
\* and from the schema view, and the table information modal.  Tabs are
\* added while there is at most one, files are imported into an empty tab
\* list.
NextView ==
  \/ Dismissable /\ DismissError(Act("DismissError"))
  \/ Fresh /\ SwitchToSchema(Act("SwitchToSchema"))
  \/ Fresh /\ SchemaNamesSelectFirst(Act("SchemaNamesSelectFirst"))
  \/ Fresh /\ Len(tabs) <= 1 /\ SchemaOpenTable(Act("SchemaOpenTable"))
  \/ \E i \in 0..1 : Fresh /\ TabSelect(ActN("TabSelect", i))
  \/ \E i \in 0..1 : Fresh /\ TabRemove(ActN("TabRemove", i))
  \/ Fresh /\ TabPrev(Act("TabPrev"))
  \/ Fresh /\ TabNext(Act("TabNext"))
  \/ Fresh /\ TabRemoveOrQuit(Act("TabRemoveOrQuit"))
  \/ Fresh /\ TabPanelSelect(Act("TabPanelSelect"))
  \/ Fresh /\ Len(tabs) <= 1 /\ TabNewQuery(ActS("TabNewQuery", NAME_T))
  \/ Fresh /\ Len(tabs) <= 1 /\ Help(Act("Help"))
  \/ Fresh /\ Len(tabs) = 0 /\ Len(catalog) <= 1 /\ ImportParquet(ActS("ImportParquet", PATH_P))
  \/ Fresh /\ Len(tabs) = 0 /\ Len(catalog) <= 1 /\ ImportJson(ActS("ImportJson", PATH_P))
  \/ Fresh /\ Len(tabs) = 0 /\ Len(catalog) <= 1 /\ ImportArrow(ActS("ImportArrow", PATH_P))
  \/ Fresh /\ Len(tabs) = 0 /\ Len(catalog) <= 1 /\ ImportSqlite(ActS("ImportSqlite", PATH_P))
  \/ Fresh /\ Len(tabs) = 0 /\ Len(catalog) <= 1 /\ ImportFwf(ActS("ImportFwf", PATH_P))
  \/ Fresh /\ DataFrameInfoShow(Act("DataFrameInfoShow"))
  \/ Fresh /\ TableDismissModal(Act("TableDismissModal"))
  \/ FollowUp

SpecView == Init /\ [][NextView]_vars
\* One pane: the table, the search bar, the search worker and the tick.
InitSearch ==
  /\ InitCommon
  /\ subseq = NoSubseq
  /\ fit = NoFit
  /\ cmd = NoLine
  /\ \E f \in Frames :
       /\ catalog = <<[name |-> NAME_T, frame |-> f, source |-> File_source(PATH_P)]>>
       /\ tabs = <<PaneState_new(f, Name_kind(NAME_T))>>

NextSearch ==
  \/ Dismissable /\ DismissError(Act("DismissError"))
  \/ Fresh /\ TableDismissModal(Act("TableDismissModal"))
  \/ Fresh /\ SheetShow(Act("SheetShow"))
  \/ Fresh /\ SearchFuzzyShow(Act("SearchFuzzyShow"))
  \/ Fresh /\ SearchExactShow(Act("SearchExactShow"))
  \/ \E n \in 0..MaxRows : Fresh /\ GotoLine(ActN("GotoLine", n))
  \/ Fresh /\ TableGotoFirst(Act("TableGotoFirst"))
  \/ Fresh /\ TableGotoLast(Act("TableGotoLast"))
  \/ Fresh /\ TableGotoRandom(Act("TableGotoRandom"))
  \/ Fresh /\ selected_modal.m # "SearchBar"
           /\ TableQuery(ActS("TableQuery", QUERY_CURRENT))
  \/ Fresh /\ SearchGotoNext(Act("SearchGotoNext"))
  \/ Fresh /\ SearchGotoPrev(Act("SearchGotoPrev"))
  \/ Fresh /\ SearchGotoStart(Act("SearchGotoStart"))
  \/ Fresh /\ SearchGotoEnd(Act("SearchGotoEnd"))
  \/ Fresh /\ SearchDeleteNext(Act("SearchDeleteNext"))
  \/ Fresh /\ SearchDeletePrev(Act("SearchDeletePrev"))
  \/ Fresh /\ SearchInsert([Act("SearchInsert") EXCEPT !.sep = "a"])
  \/ Fresh /\ SearchCommit(Act("SearchCommit"))
  \/ Fresh /\ SearchRollback(Act("SearchRollback"))
  \/ Tick
  \/ Publish
  \/ FollowUp

SpecSearch == InitSearch /\ [][NextSearch]_vars

\* The two input surfaces: every cursor, edit and selection action of the
\* palette and of the search bar, with the surface open and with it closed,
\* over one table and a history of at most one command.
NextInput ==
  \/ Dismissable /\ DismissError(Act("DismissError"))
  \/ \E text \in {<<>>, <<"q">>} : Fresh /\ PaletteShow(ActS("PaletteShow", text))
  \/ Fresh /\ PaletteGotoNext(Act("PaletteGotoNext"))
  \/ Fresh /\ PaletteGotoPrev(Act("PaletteGotoPrev"))
  \/ Fresh /\ PaletteGotoStart(Act("PaletteGotoStart"))
  \/ Fresh /\ PaletteGotoEnd(Act("PaletteGotoEnd"))
  \/ Fresh /\ PaletteGotoNextWord(Act("PaletteGotoNextWord"))
  \/ Fresh /\ PaletteGotoPrevWord(Act("PaletteGotoPrevWord"))
  \/ Fresh /\ PaletteDeleteNext(Act("PaletteDeleteNext"))
  \/ Fresh /\ PaletteDeletePrev(Act("PaletteDeletePrev"))
  \/ Fresh /\ PaletteDeleteNextWord(Act("PaletteDeleteNextWord"))
  \/ Fresh /\ PaletteDeletePrevWord(Act("PaletteDeletePrevWord"))
  \/ Fresh /\ PaletteInsert([Act("PaletteInsert") EXCEPT !.sep = "q"])
  \/ Fresh /\ PaletteSelectPrevious(Act("PaletteSelectPrevious"))
  \/ Fresh /\ PaletteSelectNext(Act("PaletteSelectNext"))
  \/ Fresh /\ PaletteDeselectOrDismiss(Act("PaletteDeselectOrDismiss"))
  \/ Fresh /\ Len(history) < 1
           /\ PaletteInsertSelectedOrCommit(Act("PaletteInsertSelectedOrCommit"))
  \/ Fresh /\ TableDismissModal(Act("TableDismissModal"))
  \/ Fresh /\ SheetShow(Act("SheetShow"))
  \/ Fresh /\ SearchFuzzyShow(Act("SearchFuzzyShow"))
  \/ Fresh /\ SearchGotoNext(Act("SearchGotoNext"))
  \/ Fresh /\ SearchGotoPrev(Act("SearchGotoPrev"))
  \/ Fresh /\ SearchGotoStart(Act("SearchGotoStart"))
  \/ Fresh /\ SearchGotoEnd(Act("SearchGotoEnd"))
  \/ Fresh /\ SearchGotoNextWord(Act("SearchGotoNextWord"))
  \/ Fresh /\ SearchGotoPrevWord(Act("SearchGotoPrevWord"))
  \/ Fresh /\ SearchDeleteNext(Act("SearchDeleteNext"))
  \/ Fresh /\ SearchDeletePrev(Act("SearchDeletePrev"))
  \/ Fresh /\ SearchDeleteNextWord(Act("SearchDeleteNextWord"))
  \/ Fresh /\ SearchDeletePrevWord(Act("SearchDeletePrevWord"))
  \/ Fresh /\ SearchInsert([Act("SearchInsert") EXCEPT !.sep = "a"])
  \/ FollowUp

InitInput == InitSearch /\ tabs[1].frame = FullFrame

SpecInput == InitInput /\ [][NextInput]_vars

\* One pane of any table kind: every modal it can show, the replacing of
\* the modal, the tick and the search workers, that of the open bar and
\* those of the bars that have been replaced.
InitPane ==
  /\ InitCommon
  /\ subseq = NoSubseq
  /\ fit = NoFit
  /\ cmd = NoLine
  /\ catalog = <<[name |-> NAME_T, frame |-> FullFrame, source |-> File_source(PATH_P)]>>
  /\ \E table_type \in {Help_kind, Name_kind(NAME_T), Query_kind(QUERY_CURRENT)} :
       tabs = <<PaneState_new(FullFrame, table_type)>>

NextPane ==
  \/ Dismissable /\ DismissError(Act("DismissError"))
  \/ Fresh /\ SheetShow(Act("SheetShow"))
  \/ Fresh /\ SearchFuzzyShow(Act("SearchFuzzyShow"))
  \/ Fresh /\ SearchExactShow(Act("SearchExactShow"))
  \/ Fresh /\ DataFrameInfoShow(Act("DataFrameInfoShow"))
  \/ Fresh /\ ScatterPlot(Act("ScatterPlot"))
  \/ Fresh /\ HistogramPlot(Act("HistogramPlot"))
  \/ Fresh /\ InlineQueryShow(Act("InlineQueryShow"))
  \/ ShowHelp
  \/ Fresh /\ TableDismissModal(Act("TableDismissModal"))
  \/ Fresh /\ SearchCommit(Act("SearchCommit"))
  \/ Fresh /\ SearchRollback(Act("SearchRollback"))
  \/ Tick
  \/ Publish
  \/ PublishLate

SpecPane == InitPane /\ [][NextPane]_vars

\* The palette: typing a command line, committing it, the follow-up chain.
PaletteInputs ==
  {<<"q">>, <<"n", "o", "p", "e">>, <<"F", " ", "a">>, <<"t", "a", "b", " ", "1">>, <<"t", "a", "b", "r", " ", "x">>, <<"h", "e", "l", "p">>}

NextPalette ==
  \/ (Fresh \/ Dismissable) /\ NoAction(Act("NoAction"))
  \/ Dismissable /\ DismissError(Act("DismissError"))
  \/ Dismissable /\ DismissErrorAndShowPalette(Act("DismissErrorAndShowPalette"))
  \/ \E text \in PaletteInputs \cup {<<>>} : Fresh /\ PaletteShow(ActS("PaletteShow", text))
  \/ Fresh /\ PaletteInsert([Act("PaletteInsert") EXCEPT !.sep = "q"])
  \/ Fresh /\ PaletteInsertSelectedOrCommit(Act("PaletteInsertSelectedOrCommit"))
  \/ Fresh /\ PaletteDeselectOrDismiss(Act("PaletteDeselectOrDismiss"))
  \/ Fresh /\ PaletteSelectPrevious(Act("PaletteSelectPrevious"))
  \/ Fresh /\ PaletteSelectNext(Act("PaletteSelectNext"))
  \/ FollowUp

SpecPalette == Init /\ [][NextPalette]_vars

\* The command grammar: every composed command line is parsed once.
RECURSIVE join(_)
join(words) ==
  IF words = <<>> THEN <<>>
  ELSE IF Len(words) = 1 THEN words[1]
  ELSE words[1] \o <<" ">> \o join(Tail(words))

IMPORT == <<"i", "m", "p", "o", "r", "t", " ">>

ImportLine(kw, gap, bracket, opts, path) ==
  [text |-> IMPORT \o kw \o gap
              \o (IF bracket THEN <<"[">> \o join(opts) \o <<"]", " ">> ELSE <<>>)
              \o path,
   kw |-> kw, gap |-> gap, bracket |-> bracket, opts |-> opts, path |-> path]

NH == <<"n", "h">>
NO_HEADER == <<"n", "o", "-", "h", "e", "a", "d", "e", "r">>
FW == <<"f", "w">>
FLEXIBLE_WIDTH == <<"f", "l", "e", "x", "i", "b", "l", "e", "-", "w", "i", "d", "t", "h">>
CsvTokens == {NH, NO_HEADER, <<";">>, <<"\\", "t">>, <<"é">>}
FwfTokens == {NH, FLEXIBLE_WIDTH, <<"1">>, <<"4">>, <<"5">>}
Paths == {PATH_P, <<"/", "m", "y", " ", "c", "s", "v", " ", "x">>, <<"/", "a", "[", "1", "]">>}
Formats == {KW_CSV, KW_PARQUET, KW_JSON, KW_JSONL, KW_ARROW, KW_SQLITE, KW_FWF}
Options(tokens) == UNION {[1..k -> tokens] : k \in 0..MaxOpts}

OtherLines ==
  {<<"q">>,
   <<"q", "u", "i", "t">>,
   <<"g", "o", "t", "o">>,
   <<"g", "o", "t", "o", " ", "0">>,
   <<"g", "o", "t", "o", " ", "1">>,
   <<"g", "o", "t", "o", " ", "1", "2">>,
   <<"g", "o", "t", "o", " ", "x">>,
   <<"g", "o", "u", "p", " ", "2">>,
   <<"g", "o", "d", "o", "w", "n", " ", "h", "a", "l", "f">>,
   <<"F">>,
   <<"F", " ", "a">>,
   <<"O", " ", "a">>,
   <<"S", " ", "a">>,
   <<"Q", " ", "t">>,
   <<"t", "a", "b", " ", "1">>,
   <<"t", "a", "b", "r", " ", "0">>,
   <<"t", "a", "b", "r", " ", "x">>,
   <<"t", "a", "b", "n", " ", "t">>,
   <<"r", "a", "n", "d">>,
   <<"h", "e", "l", "p">>,
   <<"r", "e", "s", "e", "t">>,
   <<"s", "c", "h", "e", "m", "a">>,
   <<"t", "h", "e", "m", "e">>,
   <<"r", "e", "g", "i", "s", "t", "e", "r", " ", "u">>,
   <<"i", "n", "f", "e", "r", " ", "i", "n", "t", " ", "a", "l", "l">>,
   <<"i", "n", "f", "e", "r", " ", "t", "e", "x", "t">>,
   <<"h", "i", "s", "t", " ", "a">>,
   <<"h", "i", "s", "t", " ", "a", " ", "5">>,
   <<"h", "i", "s", "t", " ", "a", " ", "b", " ", "c">>,
   <<"s", "c", "a", "t", "t", "e", "r", " ", "a", " ", "b", " ", "c">>,
   <<"s", "c", "a", "t", "t", "e", "r", " ", "a">>,
   <<"e", "x", "p", "o", "r", "t", " ", "c", "s", "v", " ", "/", "p">>,
   <<"e", "x", "p", "o", "r", "t", " ", "t", "s", "v", " ", "/", "p">>,
   <<"e", "x", "p", "o", "r", "t", " ", "x", "m", "l", " ", "/", "p">>,
   <<"e", "x", "p", "o", "r", "t", " ", "c", "s", "v">>,
   <<"i", "m", "p", "o", "r", "t">>,
   <<"i", "m", "p", "o", "r", "t", " ", "x", "m", "l", " ", "/", "p">>,
   <<"Q", " ", "S", "E", "L", "E", "C", "T", " ", "*", " ", "F", "R", "O", "M", " ", "t">>,
   <<"q", "u", "e", "r", "y", " ", "S", "E", "L", "E", "C", "T", " ", "*", " ", "F", "R", "O", "M", " ", "t">>,
   <<"Q">>,
   <<"S">>,
   <<"O">>,
   <<"q", " ", "x">>,
   <<"F", " ", " ", "a">>,
   <<"f", "i", "l", "t", "e", "r", " ", "a">>,
   <<"o", "r", "d", "e", "r">>,
   <<"s", "e", "l", "e", "c", "t", " ", "a">>,
   <<"n", "o", "p", "e">>,
   <<>>}

GOTO == <<"g", "o", "t", "o">>
EXPORT == <<"e", "x", "p", "o", "r", "t">>
KW_XML == <<"x", "m", "l">>
MaxGoto == 12

\* `goto` with every line number up to MaxGoto and with arguments that are
\* not numbers
GotoLines ==
  {GOTO \o <<" ">> \o usize_to_string(n) : n \in 0..MaxGoto}
    \cup {GOTO \o <<" ">> \o arg :
            arg \in {<<>>, <<"+", "3">>, <<"-", "1">>, <<"1", "x">>, <<" ", "1">>,
                     <<"1", ".", "5">>}}

\* `export` with every format, with unknown formats, with and without a path
ExportFormats == {KW_CSV, KW_TSV, KW_PARQUET, KW_JSON, KW_JSONL, KW_ARROW}
ExportLines ==
  {EXPORT \o <<" ">> \o fmt \o <<" ">> \o path :
     fmt \in ExportFormats \cup {KW_XML, KW_SQLITE, <<>>}, path \in Paths \cup {<<>>}}
    \cup {EXPORT \o <<" ">> \o fmt : fmt \in ExportFormats \cup {KW_XML, <<>>}}
    \cup {EXPORT}
SimpleLines ==
  {ImportLine(kw, <<" ">>, FALSE, <<>>, path) : kw \in Formats, path \in Paths}
    \cup {Line(text) : text \in OtherLines \cup GotoLines \cup ExportLines}

BracketLines(kw, tokens) ==
  {ImportLine(kw, gap, TRUE, opts, PATH_P) :
     gap \in {<<>>, <<" ">>}, opts \in Options(tokens)}

InitParse ==
  /\ InitCommon
  /\ subseq = NoSubseq
  /\ fit = NoFit
  /\ catalog = <<>>
  /\ tabs = <<>>
  /\ cmd \in SimpleLines \cup BracketLines(KW_CSV, CsvTokens)
                         \cup BracketLines(KW_FWF, FwfTokens)

Parse ==
  /\ parsed = NotParsed
  /\ parsed' = parse_into_action(cmd.text)
  /\ UNCHANGED <<tabs, selected_tab, content, schema_selected, palette, history,
                 error, running, catalog, theme, theme_selector, pending, panicked,
                 last, cmd, reg, subseq, fit>>

NextParse == Parse

SpecParse == InitParse /\ [][NextParse]_vars

\* The catalog alone: registrations and removals in any order.
NAME_X == <<"x">>
NAME_X_2 == <<"x", "_", "2">>
NAME_X_3 == <<"x", "_", "3">>
CatalogBases == {NAME_X, NAME_X_2, NAME_T}

InitCatalog ==
  /\ InitCommon
  /\ subseq = NoSubseq
  /\ fit = NoFit
  /\ cmd = NoLine
  /\ catalog = <<>>
  /\ tabs = <<>>

Register(base) ==
  /\ Len(catalog) < MaxCatalog
  /\ catalog' = register(catalog, base, FullFrame, User_source).catalog
  /\ reg' = [base |-> base, before |-> schema_names(catalog),
             name |-> register(catalog, base, FullFrame, User_source).name]
  /\ UNCHANGED <<tabs, selected_tab, content, schema_selected, palette, history,
                 error, running, theme, theme_selector, pending, panicked, last,
                 cmd, parsed, subseq, fit>>

Unregister(name) ==
  /\ schema_has(catalog, name)
  /\ catalog' = unregister(catalog, name)
  /\ reg' = NoCall
  /\ UNCHANGED <<tabs, selected_tab, content, schema_selected, palette, history,
                 error, running, theme, theme_selector, pending, panicked, last,
                 cmd, parsed, subseq, fit>>

NextCatalog ==
  \/ \E base \in CatalogBases : Register(base)
  \/ \E name \in Range(schema_names(catalog)) : Unregister(name)

SpecCatalog == InitCatalog /\ [][NextCatalog]_vars

\* ------------------------------------------------------------------ claims

\* C1: when a follow-up chain has ended, selected_tab is in [0, tabs.len()),
\* or tabs is empty and running = false.
C1_SelectedTabInRange ==
  pending = None => \/ selected_tab < Len(tabs)
                    \/ Len(tabs) = 0 /\ ~running

\* C3: TableGotoRandom completes without panicking and returns no follow-up;
\* on a frame of height > 0 the selected row is then in [0, height).
C3_GotoRandomTotal ==
  last.act.type = "TableGotoRandom" =>
    /\ ~panicked
    /\ last.res = "none"
    /\ tabs_has_selected /\ height(tabs_selected.frame) > 0
         => tabs_selected.row < height(tabs_selected.frame)

\* C2: a step that returns an error leaves tabs, selected_tab, the modals,
\* the palette, the history, the content and the catalog as they were.
C2_ErrorLeavesStateUnchanged ==
  [][last'.res = "err"
       => UNCHANGED <<tabs, selected_tab, palette, history, content, catalog>>]_vars

\* the options of a command line, as the grammar reads them
count(opts, tokens) == Len(SelectSeq(opts, LAMBDA o : o \in tokens))
integers(opts) == SelectSeq(opts, LAMBDA o : parse_usize(o) # <<>>)
usizes(opts) == [i \in 1..Len(opts) |-> parse_usize(opts[i])[1]]
characters(opts) ==
  SelectSeq(opts, LAMBDA o : o = <<"\\", "t">> \/ (Len(o) = 1 /\ is_ascii(o)))
character(o) == IF o = <<"\\", "t">> THEN "\t" ELSE o[1]

\* C4: `import fwf [<opts>] <path>` parses to ImportFwf with the first integer
\* as the separator length, the following integers as the widths in order,
\* has_header = false iff nh/no-header is given, flexible_width = true iff
\* fw/flexible-width is given, and <path> as the source; so
\* `import fwf [1 4 5 nh] /p` gives separator_length 1 and widths [4, 5].
C4_FwfOptions ==
  (/\ parsed.st # "none"
   /\ cmd.kw = KW_FWF /\ cmd.bracket /\ cmd.gap = <<" ">>
   /\ count(cmd.opts, {NH, NO_HEADER}) <= 1
   /\ count(cmd.opts, {FW, FLEXIBLE_WIDTH}) <= 1)
  => parsed = Parsed(ImportFwfAct(
                cmd.path,
                IF integers(cmd.opts) = <<>> THEN <<>>
                  ELSE Tail(usizes(integers(cmd.opts))),
                IF integers(cmd.opts) = <<>> THEN 0
                  ELSE Head(usizes(integers(cmd.opts))),
                count(cmd.opts, {FW, FLEXIBLE_WIDTH}) = 1,
                count(cmd.opts, {NH, NO_HEADER}) = 0))

\* C5: `import csv [<opts>] <path>` parses to ImportDsv with has_header = false
\* iff nh/no-header is given, the first character option as the separator and
\* the second as the quote (defaults ',' and '"'), and <path> as the source;
\* a third character option, a repeated nh or any other token is an error.
C5_CsvOptions ==
  (parsed.st # "none" /\ cmd.kw = KW_CSV /\ cmd.bracket /\ cmd.gap = <<" ">>)
  => IF \/ Len(characters(cmd.opts)) > 2
        \/ count(cmd.opts, {NH, NO_HEADER}) > 1
        \/ Len(characters(cmd.opts)) + count(cmd.opts, {NH, NO_HEADER}) < Len(cmd.opts)
       THEN parsed.st = "err"
       ELSE parsed = Parsed(ImportDsvAct(
                       cmd.path,
                       IF Len(characters(cmd.opts)) >= 1
                         THEN character(characters(cmd.opts)[1]) ELSE ",",
                       IF Len(characters(cmd.opts)) >= 2
                         THEN character(characters(cmd.opts)[2]) ELSE "\"",
                       count(cmd.opts, {NH, NO_HEADER}) = 0))

suffixed(base, i) == base \o <<"_">> \o usize_to_string(i)

\* C8: the name register returns was not in the catalog before the call; it is
\* base when base was free, otherwise base_i for the least i >= 2 with base_i
\* free; base_1 is never generated.
C8_RegisterReturnsLeastFree ==
  reg # NoCall =>
    /\ reg.name \notin Range(reg.before)
    /\ IF reg.base \notin Range(reg.before)
         THEN reg.name = reg.base
         ELSE \E i \in 2..(Len(reg.before) + 2) :
                /\ reg.name = suffixed(reg.base, i)
                /\ \A j \in 2..(i - 1) : suffixed(reg.base, j) \in Range(reg.before)
    /\ catalog[Len(catalog)].name = reg.name
    /\ schema_names(catalog) = Append(reg.before, reg.name)

C8_Witness ==
  /\ reg.base = NAME_X
  /\ {NAME_X, NAME_X_2} \subseteq Range(reg.before)
  /\ reg.name = NAME_X_3

ImportActions ==
  {"ImportDsv", "ImportParquet", "ImportJson", "ImportArrow", "ImportSqlite", "ImportFwf"}

\* C9: an import that decodes k >= 1 frames registers each frame, appends one
\* Name tab per frame under the assigned name, in order, and ends with the last
\* created tab selected (directly, or by the TabSelect it emits).
C9_ImportSelectsLast ==
  [][(last'.act.type \in ImportActions /\ Len(tabs') > Len(tabs))
     => /\ SubSeq(tabs', 1, Len(tabs)) = tabs
        /\ Len(catalog') - Len(catalog) = Len(tabs') - Len(tabs)
        /\ \A i \in 1..(Len(tabs') - Len(tabs)) :
             /\ tabs'[Len(tabs) + i].kind = Name_kind(catalog'[Len(catalog) + i].name)
             /\ tabs'[Len(tabs) + i].frame = catalog'[Len(catalog) + i].frame
        /\ \/ pending' = ActN("TabSelect", Len(tabs') - 1)
           \/ pending' = None /\ selected_tab' = Len(tabs') - 1]_vars

\* C10: RegisterDataFrame(name) with name in the catalog returns an error and
\* leaves the catalog unchanged; otherwise it appends the selected tab's frame
\* under exactly name with source User; the tabs are unchanged in both cases.
C10_RegisterDataFrame ==
  [][last'.act.type = "RegisterDataFrame"
     => /\ tabs' = tabs
        /\ IF schema_has(catalog, last'.act.s)
             THEN last'.res = "err" /\ catalog' = catalog
             ELSE /\ last'.res = "none"
                  /\ tabs_has_selected
                       => catalog' = Append(catalog, [name |-> last'.act.s,
                                                      frame |-> tabs_selected.frame,
                                                      source |-> User_source])]_vars

C10_Witness ==
  /\ last.act.type = "RegisterDataFrame"
  /\ last.res = "err"
  /\ \E i \in 1..Len(catalog) :
       catalog[i].name = last.act.s /\ catalog[i].source = User_source

\* a sequence without its element at the 0-based position idx
without(seq, idx) ==
  [i \in 1..(Len(seq) - 1) |-> IF i <= idx THEN seq[i] ELSE seq[i + 1]]

\* C11: SchemaUnloadTable with a selected schema row removes exactly that entry
\* from the catalog and leaves the tabs (count, order, kinds, frames, modals)
\* and selected_tab unchanged: a tab of kind Name(n) survives the unloading
\* of n with its own frame.
C11_UnloadKeepsTabs ==
  [][(last'.act.type = "SchemaUnloadTable" /\ selected_table_name # <<>>)
     => /\ last'.res = "none"
        /\ catalog' = without(catalog, schema_selected[1])
        /\ selected_table_name[1] \notin Range(schema_names(catalog'))
        /\ tabs' = tabs
        /\ selected_tab' = selected_tab]_vars

C11_Witness ==
  /\ last.act.type = "SchemaUnloadTable"
  /\ last.res = "none"
  /\ ~schema_has(catalog, NAME_T)
  /\ tabs # <<>>
  /\ tabs[1].kind = Name_kind(NAME_T)
  /\ tabs[1].frame = FullFrame

\* the 0-based positions of the tabs of kind Name(name)
name_tabs(ts, name) == {i \in 0..(Len(ts) - 1) : ts[i + 1].kind = Name_kind(name)}

\* C12: SchemaOpenTable with schema row n selected emits TabSelect of the first
\* tab of kind Name(n) when there is one, and the chain then selects that tab
\* with the tab list unchanged; otherwise it emits TabNewQuery(n), which
\* appends exactly one tab of kind Name(n), and the chain ends with that tab
\* selected.  A second application therefore adds no tab.
C12_OpenTableOnce ==
  [][/\ (last'.act.type = "SchemaOpenTable" /\ selected_table_name # <<>>)
         => /\ tabs' = tabs
            /\ pending' = IF name_tabs(tabs, selected_table_name[1]) # {}
                             THEN ActN("TabSelect", least(name_tabs(tabs, selected_table_name[1])))
                             ELSE ActS("TabNewQuery", selected_table_name[1])
     /\ (last.act.type = "SchemaOpenTable" /\ pending.type = "TabSelect")
         => /\ tabs' = tabs
            /\ pending' = None
            /\ selected_tab' = least(name_tabs(tabs, selected_table_name[1]))
     /\ (last.act.type = "SchemaOpenTable" /\ pending.type = "TabNewQuery")
         => /\ name_tabs(tabs, pending.s) = {}
            /\ name_tabs(tabs', pending.s) = {Len(tabs)}
            /\ SubSeq(tabs', 1, Len(tabs)) = tabs
            /\ Len(tabs') = Len(tabs) + 1
            /\ tabs'[Len(tabs')].frame = schema_get(catalog, pending.s).frame
            /\ pending' = ActN("TabSelect", Len(tabs))
     /\ (last.act.type = "TabNewQuery" /\ pending.type = "TabSelect")
         => /\ tabs' = tabs
            /\ pending' = None
            /\ selected_tab' = Len(tabs) - 1]_vars

C12_Witness ==
  /\ last.act.type = "SchemaOpenTable"
  /\ pending.type = "TabSelect"
  /\ Len(tabs) >= 2
  /\ tabs[pending.n + 1].kind = Name_kind(NAME_U)
  /\ name_tabs(tabs, NAME_U) = {pending.n}

\* the 0-based positions of the tabs of kind Help
help_tabs(ts) == {i \in 0..(Len(ts) - 1) : ts[i + 1].kind = Help_kind}

\* C13: Help with a Help tab open emits TabSelect of that tab and adds no tab;
\* otherwise it appends one Help tab and emits TabSelect of it; the chain ends
\* with a Help tab selected; the tab list never holds two Help tabs.
C13_HelpOnce ==
  /\ [](Cardinality(help_tabs(tabs)) <= 1)
  /\ [][/\ last'.act.type = "Help"
            => IF help_tabs(tabs) # {}
                 THEN /\ tabs' = tabs
                      /\ pending' = ActN("TabSelect", least(help_tabs(tabs)))
                 ELSE /\ tabs' = Append(tabs, PaneState_new(HelpFrame, Help_kind))
                      /\ pending' = ActN("TabSelect", Len(tabs))
         /\ (last.act.type = "Help" /\ pending.type = "TabSelect")
            => /\ tabs' = tabs
               /\ pending' = None
               /\ selected_tab' \in help_tabs(tabs)]_vars

C13_Witness ==
  /\ last.act.type = "Help"
  /\ Len(tabs) = 3
  /\ help_tabs(tabs) = {1}
  /\ pending = ActN("TabSelect", 1)

\* C15: TabNewQuery(s) that succeeds appends exactly one tab and leaves the
\* existing tabs as they were: of kind Name(s) with the registered frame of s
\* when s is a catalog name, otherwise of kind Query(s) with a result of
\* executing s on the selected tab's frame; the chain ends with the new tab
\* (the last one) selected.
C15_TabNewQuery ==
  [][/\ (last'.act.type = "TabNewQuery" /\ last'.res # "err")
        => /\ Len(tabs') = Len(tabs) + 1
           /\ SubSeq(tabs', 1, Len(tabs)) = tabs
           /\ tabs'[Len(tabs')].modal = NoModal
           /\ IF last'.act.s \in Range(schema_names(catalog))
                THEN /\ tabs'[Len(tabs')].kind = Name_kind(last'.act.s)
                     /\ tabs'[Len(tabs')].frame = schema_get(catalog, last'.act.s).frame
                ELSE /\ tabs'[Len(tabs')].kind = Query_kind(last'.act.s)
                     /\ [ok |-> TRUE, df |-> tabs'[Len(tabs')].frame]
                          \in sql_execute(catalog, last'.act.s, current_frame)
           /\ selected_tab' = selected_tab
           /\ pending' = ActN("TabSelect", Len(tabs))
     /\ (last.act.type = "TabNewQuery" /\ pending # None)
        => /\ tabs' = tabs
           /\ selected_tab' = Len(tabs) - 1
           /\ pending' = None]_vars

C15_Witness ==
  /\ last.act.type = "TabSelect"
  /\ pending = None
  /\ Len(tabs) = 3
  /\ selected_tab = 2
  /\ tabs[2].kind = Query_kind(QUERY_CURRENT)
  /\ tabs[3].kind = Name_kind(NAME_T)

\* C17: TabSelect(i) and TabRemove(i) complete without a panic for every i,
\* also i >= tabs.len(); TabSelect(i) on a non-empty tab list leaves
\* selected_tab = min(i, tabs.len() - 1); the chains of TabPrev at index 0
\* and of TabNext at the last index leave the selection where it is.
C17_IndicesClamped ==
  [][/\ last'.act.type \in {"TabSelect", "TabRemove"}
        => ~panicked' /\ last'.res \in {"none", "some"}
     /\ (last'.act.type = "TabSelect" /\ Len(tabs) > 0)
        => /\ selected_tab' = Min(last'.act.n, Len(tabs) - 1)
           /\ tabs' = tabs
     /\ (last'.act.type = "TabRemove" /\ last'.act.n >= Len(tabs))
        => tabs' = tabs
     /\ last'.act.type \in {"TabPrev", "TabNext"}
        => pending'.type = "TabSelect" /\ tabs' = tabs /\ selected_tab' = selected_tab
     /\ (last.act.type = "TabPrev" /\ pending # None /\ selected_tab = 0)
        => selected_tab' = 0 /\ pending' = None
     /\ (last.act.type = "TabNext" /\ pending # None /\ selected_tab = Len(tabs) - 1)
        => selected_tab' = selected_tab /\ pending' = None]_vars

C17_Witness ==
  /\ last.act.type = "TabSelect"
  /\ last.act.n >= Len(tabs)
  /\ Len(tabs) >= 2
  /\ selected_tab = Len(tabs) - 1
  /\ ~panicked

\* C18: TabRemoveOrQuit with exactly one tab sets running = false and returns
\* no follow-up; with two or more tabs it removes the selected tab, leaves
\* running = true, and its chain ends with
\* selected_tab = min(old selected index, new tabs.len() - 1).
C18_RemoveOrQuit ==
  [][/\ (last'.act.type = "TabRemoveOrQuit" /\ Len(tabs) = 1)
        => ~running' /\ pending' = None /\ last'.res = "none"
     /\ (last'.act.type = "TabRemoveOrQuit" /\ Len(tabs) >= 2)
        => /\ running'
           /\ tabs' = without(tabs, selected_tab)
           /\ selected_tab' = selected_tab
           /\ pending' = ActN("TabSelect", selected_tab)
     /\ (last.act.type = "TabRemoveOrQuit" /\ pending # None /\ Len(tabs) >= 1)
        => /\ running'
           /\ tabs' = tabs
           /\ selected_tab' = Min(selected_tab, Len(tabs) - 1)
           /\ pending' = None]_vars

C18_Witness ==
  /\ last.act.type = "TabRemoveOrQuit"
  /\ running
  /\ pending = ActN("TabSelect", Len(tabs))
  /\ Len(tabs) >= 1

\* C20: executing TabRename(i, name) returns an error value without a panic
\* and leaves the state unchanged.
C20_TabRenameUnsupported ==
  [][last'.act.type = "TabRename"
     => /\ ~panicked'
        /\ last'.res = "err"
        /\ UNCHANGED <<tabs, selected_tab, content, running, catalog, palette,
                       history>>]_vars

C16_TableReset ==
  [][/\ last'.act.type = "TableReset"
        => /\ UNCHANGED <<tabs, selected_tab, content, catalog, error, running>>
           /\ pending' = IF tabs_has_selected /\ tabs_selected.kind.t = "Name"
                            THEN ActS("TableQuery", select_all_from(tabs_selected.kind.s))
                          ELSE IF tabs_has_selected /\ tabs_selected.kind.t = "Query"
                            THEN ActS("TableQuery", tabs_selected.kind.s)
                          ELSE None
     /\ (last.act.type = "TableReset" /\ pending # None /\ tabs_selected.kind.t = "Name")
        => /\ tabs' = tabs
           /\ IF tabs_selected.kind.s \in Range(schema_names(catalog))
                THEN pending' = [Act("TableSetDataFrame") EXCEPT
                                   !.df = schema_get(catalog, tabs_selected.kind.s).frame]
                ELSE pending' = None /\ last'.res = "err"
     /\ (last.act.type = "TableReset" /\ pending # None /\ tabs_selected.kind.t = "Query")
        => /\ tabs' = tabs
           /\ last'.act = ActS("TableQuery", tabs_selected.kind.s)
           /\ \/ pending' = None /\ last'.res = "err"
              \/ /\ pending'.type = "TableSetDataFrame"
                 /\ [ok |-> TRUE, df |-> pending'.df]
                      \in sql_execute(catalog, tabs_selected.kind.s, current_frame)
     /\ (last.act.type = "TableQuery" /\ pending.type = "TableSetDataFrame")
        => /\ pending' = None
           /\ selected_tab' = selected_tab
           /\ Len(tabs') = Len(tabs)
           /\ \A i \in 1..Len(tabs) :
                IF i = selected_tab + 1
                  THEN tabs'[i].frame = pending.df /\ tabs'[i].kind = tabs[i].kind
                  ELSE tabs'[i] = tabs[i]]_vars

C16_Witness ==
  /\ last.act.type = "TableReset"
  /\ pending = ActS("TableQuery", select_all_from(NAME_T))
  /\ tabs_selected.frame # FullFrame
  /\ schema_has(catalog, NAME_T)

\* the long form of the registry entries that have a short form
long_form(short) ==
  CASE short = <<"Q">> -> <<"q", "u", "e", "r", "y">>
    [] short = <<"q">> -> <<"q", "u", "i", "t">>
    [] short = <<"S">> -> <<"s", "e", "l", "e", "c", "t">>
    [] short = <<"F">> -> <<"f", "i", "l", "t", "e", "r">>
    [] short = <<"O">> -> <<"o", "r", "d", "e", "r">>

first_word(line) == IF split_once(line, " ") = <<>> THEN line ELSE split_once(line, " ")[1]

\* C19: a command line that starts with a short form (Q, q, S, F, O) parses to
\* the same result, action and payload or error, as the line with the long
\* form (query, quit, select, filter, order) in its place; so
\* `Q SELECT * FROM t` gives TableQuery("SELECT * FROM t").
C19_ShortLongSame ==
  /\ (parsed.st # "none" /\ first_word(cmd.text) \in {<<"Q">>, <<"q">>, <<"S">>, <<"F">>, <<"O">>})
     => parsed = parse_into_action(long_form(first_word(cmd.text))
                   \o SubSeq(cmd.text, 2, Len(cmd.text)))
  /\ (parsed.st # "none" /\ cmd.text = <<"Q", " ">> \o SELECT_ALL_FROM \o NAME_T)
     => parsed = Parsed(ActS("TableQuery", SELECT_ALL_FROM \o NAME_T))

C19_Witness ==
  /\ first_word(cmd.text) = <<"Q">>
  /\ parsed = Parsed(ActS("TableQuery", SELECT_ALL_FROM \o NAME_T))

\* C22: execute(NoAction, s) returns no follow-up and leaves every component
\* of the state unchanged, whatever the state (an error displayed, the palette
\* open or closed).
C22_NoAction ==
  [][last'.act.type = "NoAction"
     => /\ pending' = None
        /\ last'.res = "none"
        /\ UNCHANGED <<tabs, selected_tab, content, schema_selected, palette,
                       history, error, running, catalog, theme, theme_selector,
                       panicked>>]_vars

C22_Witness == last.act.type = "NoAction" /\ error # "" /\ history # <<>>

\* the rest of a command line after its first word and one space
arguments(line) == IF split_once(line, " ") = <<>> THEN <<>> ELSE split_once(line, " ")[2]

\* C26: `goto <n>` parses to GotoLine(n - 1) for every n >= 1 and `goto 0` to
\* GotoLine(0); `goto` without an argument parses to GoToLineShow; an
\* argument with a character that is neither a digit nor a plus sign is a
\* parse error.
C26_Goto ==
  /\ \A n \in 0..MaxGoto :
       (parsed.st # "none" /\ cmd.text = GOTO \o <<" ">> \o usize_to_string(n))
         => /\ parsed.st = "ok"
            /\ parsed.act = ActN("GotoLine", IF n >= 1 THEN n - 1 ELSE 0)
            /\ parsed.act.n >= 0
  /\ (parsed.st # "none" /\ cmd.text = GOTO) => parsed = Parsed(Act("GoToLineShow"))
  /\ (/\ parsed.st # "none"
      /\ first_word(cmd.text) = GOTO
      /\ \E i \in 1..Len(arguments(cmd.text)) :
           ~is_digit(arguments(cmd.text)[i]) /\ arguments(cmd.text)[i] # "+")
     => parsed = ParseError

C26_Witness ==
  /\ cmd.text = GOTO \o <<" ", "0">>
  /\ parsed = Parsed(ActN("GotoLine", 0))

export_action(fmt) ==
  CASE fmt \in {KW_CSV, KW_TSV} -> "ExportDsv"
    [] fmt = KW_PARQUET -> "ExportParquet"
    [] fmt \in {KW_JSON, KW_JSONL} -> "ExportJson"
    [] fmt = KW_ARROW -> "ExportArrow"

C28_ErrorEndsChain ==
  [][/\ last'.res = "err"
          => /\ pending' = None
             /\ error' # ""
             /\ running' = running
             /\ ~panicked'
     /\ last'.act.type = "DismissError"
          => /\ error' = ""
             /\ pending' = None
             /\ UNCHANGED <<tabs, selected_tab, content, schema_selected, palette,
                            history, running, catalog, theme, theme_selector>>
     /\ last'.act.type = "DismissErrorAndShowPalette"
          => /\ error' = ""
             /\ palette' = <<[text |-> <<>>, cursor |-> 0, selected |-> <<>>]>>
             /\ pending' = None
             /\ UNCHANGED <<tabs, selected_tab, content, schema_selected, history,
                            running, catalog, theme, theme_selector>>]_vars

C28_Witness ==
  /\ last = [act |-> ActS("TableQuery", QUERY_CURRENT \o WHERE \o <<"a">>), res |-> "err"]
  /\ pending = None
  /\ error # ""
  /\ running

\* C29: TableSelect(s), TableOrder(s) and TableFilter(s) change no state and
\* hand over TableQuery of `SELECT s FROM _`, `SELECT * FROM _ ORDER BY s` and
\* `SELECT * FROM _ where s`; TableQuery(sql) changes no state and hands the
\* engine's result for sql, with `_` bound to the frame of the selected tab,
\* to TableSetDataFrame; TableSetDataFrame(df) makes df the frame of the
\* selected tab and touches no other tab.
C29_QueryRewrite ==
  [][/\ last'.act.type \in {"TableSelect", "TableOrder", "TableFilter"}
          => /\ pending'.type = "TableQuery"
             /\ last'.act.type = "TableSelect"
                  => pending'.s = <<"S", "E", "L", "E", "C", "T", " ">> \o last'.act.s
                                    \o <<" ", "F", "R", "O", "M", " ", "_">>
             /\ last'.act.type = "TableOrder"
                  => pending'.s = <<"S", "E", "L", "E", "C", "T", " ", "*", " ", "F", "R", "O", "M", " ", "_", " ", "O", "R", "D", "E", "R", " ", "B", "Y", " ">>
                                    \o last'.act.s
             /\ last'.act.type = "TableFilter"
                  => pending'.s = <<"S", "E", "L", "E", "C", "T", " ", "*", " ", "F", "R", "O", "M", " ", "_", " ", "w", "h", "e", "r", "e", " ">>
                                    \o last'.act.s
             /\ UNCHANGED <<tabs, selected_tab, content, schema_selected, palette,
                            history, error, running, catalog>>
     /\ last'.act.type = "TableQuery"
          => /\ UNCHANGED <<tabs, selected_tab, content, schema_selected, palette,
                            history, running, catalog>>
             /\ IF last'.res = "some"
                  THEN /\ pending'.type = "TableSetDataFrame"
                       /\ [ok |-> TRUE, df |-> pending'.df]
                            \in sql_execute(catalog, last'.act.s, <<tabs_selected.frame>>)
                  ELSE last'.res = "err" /\ pending' = None
     /\ (last'.act.type = "TableSetDataFrame" /\ tabs_has_selected)
          => /\ pending' = None
             /\ Len(tabs') = Len(tabs)
             /\ tabs'[selected_tab + 1].frame = last'.act.df
             /\ tabs'[selected_tab + 1].kind = tabs_selected.kind
             /\ \A i \in 1..Len(tabs) : i # selected_tab + 1 => tabs'[i] = tabs[i]
             /\ UNCHANGED <<selected_tab, content, schema_selected, palette,
                            history, error, running, catalog>>]_vars

C29_Witness ==
  /\ last.act.type = "TableSetDataFrame"
  /\ Len(tabs) >= 2
  /\ tabs_has_selected
  /\ tabs_selected.frame = last.act.df
  /\ \E i \in 1..Len(tabs) : i # selected_tab + 1 /\ tabs[i].frame # last.act.df

\* C24: whenever the frame of a tab is replaced (TableSetDataFrame,
\* SearchCommit, SearchRollback, the tick that adopts a search result) the
\* selected row becomes the smaller of the old row and the last row of the
\* new frame, so that in every state selected_row < height for every tab
\* whose frame is not empty (and selected_row = 0 for an empty frame).
C24_RowClamped ==
  /\ [](\A i \in 1..Len(tabs) :
          IF height(tabs[i].frame) > 0
            THEN tabs[i].row < height(tabs[i].frame)
            ELSE tabs[i].row = 0)
  /\ [][\A i \in 1..Len(tabs) :
          (Len(tabs') = Len(tabs) /\ tabs'[i].frame # tabs[i].frame)
            => /\ last'.act.type \in {"TableSetDataFrame", "SearchCommit",
                                      "SearchRollback", "tick"}
               /\ tabs'[i].row = IF height(tabs'[i].frame) = 0 THEN 0
                                 ELSE Min(tabs[i].row, height(tabs'[i].frame) - 1)]_vars

C24_Witness ==
  /\ last.act.type = "tick"
  /\ tabs[1].modal.m = "SearchBar"
  /\ height(tabs[1].modal.rollback) = MaxRows
  /\ height(tabs[1].frame) = 1
  /\ tabs[1].row = 0

GoUpActions == {"TableGoUp", "TableGoUpHalfPage", "TableGoUpFullPage"}
GoDownActions == {"TableGoDown", "TableGoDownHalfPage", "TableGoDownFullPage"}

\* C23: after TableGoUp(n), TableGoDown(n) and their half-page and full-page
\* forms, for every n and every height, the selected row is a row of the
\* frame (0 for an empty frame), is not greater than before for the GoUp
\* forms and not smaller than before for the GoDown forms; nothing else of
\* the tab changes and there is no follow-up.
C23_GoUpDown ==
  [][(last'.act.type \in GoUpActions \cup GoDownActions /\ tabs_has_selected)
     => /\ tabs'[selected_tab + 1].row >= 0
        /\ IF height(tabs_selected.frame) > 0
             THEN tabs'[selected_tab + 1].row < height(tabs_selected.frame)
             ELSE tabs'[selected_tab + 1].row = 0
        /\ last'.act.type \in GoUpActions
             => tabs'[selected_tab + 1].row <= tabs_selected.row
        /\ last'.act.type \in GoDownActions
             => tabs'[selected_tab + 1].row >= tabs_selected.row
        /\ last'.act.type = "TableGoUp" /\ last'.act.n <= tabs_selected.row
             => tabs'[selected_tab + 1].row = tabs_selected.row - last'.act.n
        /\ (/\ last'.act.type = "TableGoDown"
            /\ tabs_selected.row + last'.act.n < height(tabs_selected.frame))
             => tabs'[selected_tab + 1].row = tabs_selected.row + last'.act.n
        /\ tabs' = [tabs EXCEPT ![selected_tab + 1].row = tabs'[selected_tab + 1].row]
        /\ pending' = None
        /\ UNCHANGED <<selected_tab, error, running>>]_vars

C23_Witness ==
  /\ last.act = ActN("TableGoDown", MaxLines)
  /\ height(tabs[1].frame) = MaxHeight
  /\ tabs[1].row = MaxHeight - 1

\* other occurs in self as a subsequence: its characters can be found in self
\* at strictly increasing positions
occurs_in_order(self, other) ==
  \E f \in [1..Len(other) -> 1..Len(self)] :
    /\ \A i, j \in 1..Len(other) : i < j => f[i] < f[j]
    /\ \A i \in 1..Len(other) : self[f[i]] = other[i]

C27_ThemeSelector ==
  [][/\ (last'.act.type = "ThemeSelectorShow" /\ theme_selector = <<>>)
          => theme_selector' # <<>> /\ into_rollback_theme(theme_selector'[1]) = theme
     /\ (theme_selector # <<>> /\ theme_selector' # <<>>)
          => theme_selector' = theme_selector
     /\ last'.act.type = "ThemeSelectorCommit"
          => /\ theme_selector' = <<>>
             /\ pending' = IF theme_selector # <<>> THEN Act("StoreConfig") ELSE None
             /\ UNCHANGED <<theme, tabs, selected_tab, content, schema_selected,
                            palette, history, error, running, catalog>>
     /\ last'.act.type = "ThemeSelectorRollback"
          => /\ theme_selector' = <<>>
             /\ pending' = IF theme_selector # <<>>
                             THEN ActN("PreviewTheme", theme_selector[1].rollback)
                             ELSE None
             /\ UNCHANGED <<theme, tabs, selected_tab, content, schema_selected,
                            palette, history, error, running, catalog>>
     /\ (last.act.type = "ThemeSelectorRollback" /\ pending # None)
          => /\ theme' = pending.n
             /\ pending' = None
             /\ theme_selector' = <<>>
             /\ last'.res = "none"]_vars

C27_Witness ==
  /\ last.act.type = "ThemeSelectorRollback"
  /\ pending = ActN("PreviewTheme", 0)
  /\ theme = MaxTheme
  /\ theme_selector = <<>>

\* the greatest number of steps a chain that starts with an action of the
\* given kind can take
chain_rank(type) ==
  CASE type = "PaletteInsertSelectedOrCommit" -> 4
    [] type \in {"TableSelect", "TableOrder", "TableFilter", "TableReset",
                 "SchemaOpenTable"} -> 3
    [] type \in {"TableQuery", "TabNewQuery", "TabRemove", "TabPrev", "TabNext",
                 "TabRemoveOrQuit", "Help", "ImportParquet", "ImportJson",
                 "ImportArrow", "ImportSqlite", "ImportFwf",
                 "TabPanelSelect", "ThemeSelectorRollback",
                 "ThemeSelectorCommit"} -> 2
    [] OTHER -> 1

\* every action the command grammar produces has a smaller rank than the
\* commit of the palette, which hands it over
grammar_ranked ==
  \A line \in SimpleLines :
    parse_into_action(line.text).st = "ok"
      => chain_rank(parse_into_action(line.text).act.type)
           < chain_rank("PaletteInsertSelectedOrCommit")

\* C21: a step hands over at most one follow-up, which is what the loop
\* executes next, and the follow-up always has a smaller rank than the action
\* that handed it over; ranks lie between 1 and 4, so no action hands over
\* itself, no cycle of follow-ups exists, and every chain ends with no
\* follow-up or with an error after at most 4 steps (the chain
\* PaletteInsertSelectedOrCommit, TableFilter, TableQuery, TableSetDataFrame
\* takes 4).
C21_ChainsEnd ==
  [][/\ pending' # None
          => /\ chain_rank(pending'.type) < chain_rank(last'.act.type)
             /\ pending'.type # last'.act.type
             /\ last'.res = "some"
     /\ chain_rank(last'.act.type) \in 1..4
     /\ grammar_ranked
     /\ last'.res \in {"none", "err", "panic"} => pending' = None
     /\ pending # None => last'.act = pending]_vars

C21_Witness ==
  /\ last.act = ActS("TableQuery", QUERY_CURRENT \o WHERE \o <<"a">>)
  /\ pending.type = "TableSetDataFrame"
  /\ history = <<<<"F", " ", "a">>>>
  /\ chain_rank("PaletteInsertSelectedOrCommit") = 4

\* C40: the history only grows at its end: a step keeps every entry it had in
\* its place, adds at most one entry, and adds one only when it is
\* PaletteInsertSelectedOrCommit committing the text of the palette; no entry
\* of the history is the empty string.
C40_HistoryAppendOnly ==
  /\ [](\A i \in 1..Len(history) : history[i] # <<>>)
  /\ [][/\ Len(history') \in {Len(history), Len(history) + 1}
        /\ SubSeq(history', 1, Len(history)) = history
        /\ history' # history
             => /\ last'.act.type = "PaletteInsertSelectedOrCommit"
                /\ palette # <<>>
                /\ history' = Append(history, palette[1].text)]_vars

C40_Witness ==
  /\ last.act.type = "PaletteInsertSelectedOrCommit"
  /\ Len(history) = MaxHistory
  /\ history[1] # history[2]
  /\ palette = <<>>

\* C39: TabRemove(i) with i < tabs.len() and at least two tabs removes the tab
\* at index i and keeps every other tab, in order and unchanged, and hands
\* over TabSelect(i); the step that executes it leaves the tabs alone and
\* makes the selection min(i, tabs.len() - 1) of the shortened list, whatever
\* was selected before.
C39_TabRemove ==
  [][/\ (last'.act.type = "TabRemove" /\ last'.act.n < Len(tabs) /\ Len(tabs) >= 2)
          => /\ Len(tabs') = Len(tabs) - 1
             /\ \A j \in 1..Len(tabs') :
                  tabs'[j] = IF j <= last'.act.n THEN tabs[j] ELSE tabs[j + 1]
             /\ pending' = ActN("TabSelect", last'.act.n)
             /\ selected_tab' = selected_tab
     /\ (last.act.type = "TabRemove" /\ pending # None /\ Len(tabs) >= 1)
          => /\ tabs' = tabs
             /\ selected_tab' = Min(last.act.n, Len(tabs) - 1)
             /\ pending' = None]_vars

C39_Witness ==
  /\ last.act.type = "TabRemove"
  /\ pending = ActN("TabSelect", last.act.n)
  /\ last.act.n < Len(tabs)
  /\ selected_tab > last.act.n

\* C38: TabSelect always sets the content to Tabular and has no follow-up;
\* TabPrev, TabNext, TabRemove, TabRemoveOrQuit (when it removes), Help,
\* TabPanelSelect (with a selection), a successful TabNewQuery and a
\* successful import of a format that selects the last tab all emit a
\* TabSelect follow-up, SchemaOpenTable emits TabSelect or TabNewQuery, and
\* none of them changes the content itself; the step that executes the
\* pending TabSelect ends the chain in the Tabular view, whichever view the
\* chain started from.
C38_TabSelectTabular ==
  [][/\ last'.act.type = "TabSelect" => (content' = "Tabular" /\ pending' = None /\ last'.res = "none")
     /\ (last'.act.type \in {"TabPrev", "TabNext", "TabRemove", "Help", "ImportParquet", "ImportJson", "ImportArrow", "ImportSqlite", "ImportFwf", "TabNewQuery"} /\ last'.res # "err")
          => (pending'.type = "TabSelect" /\ content' = content)
     /\ (last'.act.type = "TabRemoveOrQuit" /\ Len(tabs) >= 2)
          => (pending'.type = "TabSelect" /\ content' = content)
     /\ (last'.act.type = "TabPanelSelect" /\ last'.res = "some")
          => (pending'.type = "TabSelect" /\ content' = content)
     /\ (last'.act.type = "SchemaOpenTable" /\ last'.res # "err")
          => (pending'.type \in {"TabSelect", "TabNewQuery"} /\ content' = content)
     /\ (pending.type = "TabSelect" /\ ~panicked)
          => (last'.act = pending /\ content' = "Tabular" /\ pending' = None)]_vars
C38_Witness == content = "Schema" /\ pending.type = "TabSelect" /\ last.act.type \in {"TabPrev", "TabNext", "TabRemove", "TabRemoveOrQuit", "Help", "TabPanelSelect", "SchemaOpenTable", "ImportParquet"}

\* C37: a cursor, edit or selection action of the palette executed while no
\* palette is open, and a cursor or edit action of the search bar executed
\* while the selected tab's modal is not a search bar, returns Ok(None) and
\* changes nothing of the application state.
C37_InertWhenClosed ==
  [][((\/ /\ palette = <<>>
          /\ last'.act.type \in {"PaletteGotoNext", "PaletteGotoPrev", "PaletteGotoStart", "PaletteGotoEnd", "PaletteGotoNextWord", "PaletteGotoPrevWord", "PaletteDeleteNext", "PaletteDeletePrev", "PaletteDeleteNextWord", "PaletteDeletePrevWord", "PaletteInsert", "PaletteSelectPrevious", "PaletteSelectNext", "PaletteDeselectOrDismiss", "PaletteInsertSelectedOrCommit"}
       \/ /\ selected_modal.m # "SearchBar"
          /\ last'.act.type \in {"SearchGotoNext", "SearchGotoPrev", "SearchGotoStart", "SearchGotoEnd", "SearchGotoNextWord", "SearchGotoPrevWord", "SearchDeleteNext", "SearchDeletePrev", "SearchDeleteNextWord", "SearchDeletePrevWord", "SearchInsert"})
        => /\ last'.res = "none"
           /\ pending' = None
           /\ UNCHANGED <<tabs, selected_tab, content, schema_selected, palette, history, error, running, catalog, theme, theme_selector, panicked>>)]_vars
C37_Witness == last.act.type = "PaletteInsert" /\ palette = <<>> /\ selected_modal.m = "SearchBar" /\ selected_modal.text # <<>> /\ history # <<>>

\* C36: `import <fmt> <path>` with fmt one of csv, parquet, json, jsonl, arrow,
\* sqlite, fwf and a non-empty path, which may hold spaces, brackets or a
\* format keyword followed by whitespace, parses to the import action of
\* <fmt>, the format named by the first word, with source exactly <path>.
C36_ImportFormatAndPath ==
  (parsed.st # "none" /\ cmd.kw \in Formats /\ ~cmd.bracket /\ cmd.gap = <<" ">> /\ cmd.path # <<>>)
  => parsed = CASE cmd.kw = KW_CSV -> Parsed(ImportDsvAct(cmd.path, ",", "\"", TRUE))
                [] cmd.kw = KW_PARQUET -> Parsed(ActS("ImportParquet", cmd.path))
                [] cmd.kw = KW_JSON -> Parsed([ActS("ImportJson", cmd.path) EXCEPT !.fmt = "Json"])
                [] cmd.kw = KW_JSONL -> Parsed([ActS("ImportJson", cmd.path) EXCEPT !.fmt = "JsonLine"])
                [] cmd.kw = KW_ARROW -> Parsed(ActS("ImportArrow", cmd.path))
                [] cmd.kw = KW_SQLITE -> Parsed(ActS("ImportSqlite", cmd.path))
                [] cmd.kw = KW_FWF -> Parsed(ImportFwfAct(cmd.path, <<>>, 0, FALSE, TRUE))

\* C35: no sequence of reducer actions produces a pane of kind Help whose
\* modal is DataFrameInfo, the combination whose render arm is todo!(); so
\* rendering the selected pane never reaches an unimplemented branch.
C35_RenderImplemented == \A i \in 1..Len(tabs) : ~render_todo(tabs[i])

\* C34: ThemeSelectorSelectPrev, ThemeSelectorSelectNext and
\* ThemeSelectorHandleEvent return no follow-up and change at most the
\* selection and the input of the open selector, never the configured theme
\* or the rollback theme; so while the selector is open, from its opening
\* until Commit or Rollback, the configured theme is the one it was opened
\* with.
C34_NoPreview ==
  /\ [](theme_selector # <<>> => theme = theme_selector[1].rollback)
  /\ [][last'.act.type \in {"ThemeSelectorSelectPrev", "ThemeSelectorSelectNext", "ThemeSelectorHandleEvent"}
          => /\ last'.res = "none"
             /\ pending' = None
             /\ theme' = theme
             /\ (theme_selector = <<>>) = (theme_selector' = <<>>)
             /\ theme_selector # <<>> => theme_selector'[1].rollback = theme_selector[1].rollback
             /\ UNCHANGED <<tabs, selected_tab, content, schema_selected, palette, history, error, running, catalog, panicked>>]_vars
C34_Witness == last.act.type = "ThemeSelectorSelectNext" /\ theme_selector # <<>> /\ theme_selector[1].selected = <<1>> /\ theme_selector[1].input = <<"a", "b">> /\ theme = MaxTheme

\* C33: SearchCommit, SearchRollback and TableDismissModal leave the selected
\* tab without a search bar, and from then on, until a search bar is opened
\* on the tab again, neither a tick nor a publication of a search worker,
\* late ones of the replaced bar included, changes the tab's frame, its
\* selected row or the kind of its modal, in whatever order they come.
C33_ReplacedSearchCancelled ==
  [][/\ (last'.act.type \in {"SearchCommit", "SearchRollback", "TableDismissModal"} /\ tabs_has_selected)
          => tabs_selected'.modal = NoModal
     /\ last'.act.type \in {"tick", "publish"}
          => \A i \in 1..Len(tabs) :
               tabs[i].modal.m # "SearchBar"
                 => /\ tabs'[i].frame = tabs[i].frame
                    /\ tabs'[i].row = tabs[i].row
                    /\ tabs'[i].modal.m = tabs[i].modal.m]_vars
C33_Witness == last.act.type = "tick" /\ tabs[1].modal.m = "None" /\ tabs[1].modal.slot # <<>> /\ tabs[1].modal.slot[1] # tabs[1].frame /\ tabs[1].frame # FullFrame

\* C32: a tick changes the frame of the pane only when the modal is a
\* search bar whose search has a result, and the frame is then that result;
\* with any other modal (None, Sheet, DataFrameInfo, ScatterPlot,
\* HistogramPlot, InlineQuery, Help) and with a search bar without a result
\* the pane is left as it is; the kind of the modal and the table kind are
\* never changed.
C32_TickAdoptsSearchResult ==
  [][last'.act.type = "tick"
       => /\ Len(tabs') = Len(tabs)
          /\ \A i \in 1..Len(tabs) :
               /\ tabs'[i].modal.m = tabs[i].modal.m
               /\ tabs'[i].kind = tabs[i].kind
               /\ IF i = selected_tab + 1 /\ tabs[i].modal.m = "SearchBar" /\ tabs[i].modal.slot # <<>>
                    THEN tabs'[i].frame = tabs[i].modal.slot[1]
                    ELSE tabs'[i] = tabs[i]]_vars
C32_Witness == last.act.type = "tick" /\ tabs[1].kind = Help_kind /\ tabs[1].modal.m = "SearchBar" /\ tabs[1].modal.published # <<>> /\ tabs[1].frame = tabs[1].modal.published[1] /\ tabs[1].frame # tabs[1].modal.rollback

RECURSIVE display_width(_)
display_width(s) == IF s = <<>> THEN 0 ELSE char_width(s[1]) + display_width(Tail(s))

\* C31: for a string of characters of display width 0, 1 or 2 and a width w,
\* fit_to_width(w) is the longest prefix of the string whose total display
\* width is at most w: a wide character that would go beyond w is left out
\* with all that follows, combining characters at the end of the prefix are
\* kept, and the string itself is returned when its total width is at most w.
C31_FitToWidth ==
  fit.result # <<>>
    => /\ fit.result[1] = SubSeq(fit.self, 1, Len(fit.result[1]))
       /\ display_width(fit.result[1]) <= fit.width
       /\ \A k \in 0..Len(fit.self) :
            display_width(SubSeq(fit.self, 1, k)) <= fit.width => k <= Len(fit.result[1])
       /\ display_width(fit.self) <= fit.width => fit.result[1] = fit.self
C31_Witness == fit.self = <<"a", COMBINING_ACUTE, CJK_NI>> /\ fit.width = 2 /\ fit.result = <<<<"a", COMBINING_ACUTE>>>>
====
